---- MODULE Spec2Model ----
(***************************************************************************)
(* The agent loop of Scapyfy (src/logic/loop.py): llm_crafter builds a     *)
(* session context and an AgentExecutor, and AgentExecutor.invoke calls    *)
(* the chat model up to max_iterations times, dispatching every requested  *)
(* tool call through TOOL_MAP (src/logic/network_tools.py).                *)
(*                                                                         *)
(* The chat model, the external ping process and the provider environment  *)
(* are the inputs: each action draws them from small sets.                 *)
(*                                                                         *)
(* The tools of src/logic/network_tools.py are also called directly (the   *)
(* routers do so): ToolsSpec runs one tool on inputs drawn from small sets *)
(* and records what the tool did in tool_run.                              *)
(*                                                                         *)
(* SessionsSpec runs llm_crafter on the threads of the server's pool, as   *)
(* far as the thread-local session context goes; LoggingSpec is the agent  *)
(* loop with a logger whose calls can raise.                               *)
(***************************************************************************)
EXTENDS Integers, Sequences, FiniteSets, TLC

VARIABLES
    pc,                \* where llm_crafter is: "idle", "awaiting", "dispatching", "done"
    context,           \* the SessionContext of the invocation
    executor,          \* the AgentExecutor built by llm_crafter
    iteration,         \* the loop variable of `for iteration in range(max_iterations)`
    agent_scratchpad,  \* the list invoke appends AIMessage / ToolMessage entries to
    tool_calls,        \* response.tool_calls of the response being processed
    position,          \* index in tool_calls of the next call of the inner for loop
    responses,         \* history: what each self.agent.invoke call returned or raised
    dispatched,        \* history: the tool calls that reached the dispatch try block
    log,               \* the events handed to the logger, in order
    outcome,           \* what llm_crafter returned or raised
    tool_run,          \* a direct call of a tool: its inputs and what it did
    _session_context,  \* the thread-local store: for each thread, its attribute `context`
    contexts,          \* the SessionContext objects created so far
    crafter            \* for each thread, where its llm_crafter call is

loop_vars == <<pc, context, executor, iteration, agent_scratchpad, tool_calls,
               position, responses, dispatched, log, outcome>>

session_vars == <<_session_context, contexts, crafter>>

vars == <<loop_vars, tool_run, session_vars>>

-----------------------------------------------------------------------------
(* Bounds of the model. *)

\* the largest max_iterations a caller passes
MaxIterations == 3
\* the largest number of tool calls in one model response
MaxBatch == 2
\* the largest number of tool calls the model requests in one invocation
MaxCalls == 3

-----------------------------------------------------------------------------
(* Python values. A value keeps its type, so that str() is a conversion.   *)

Str(s) == [type |-> "str", repr |-> s]
Num(s) == [type |-> "int", repr |-> s]

\* str(v): a str is returned as it is, any other value becomes its text
PyStr(v) == [type |-> "str", repr |-> v.repr]

\* bool(v) of a str: the empty string is false
Truthy(v) == v.repr # ""

\* None, where a name or an error is optional
None == "<None>"

-----------------------------------------------------------------------------
(* Keyword arguments: a mapping is a set of <<key, value>> pairs.          *)

Keys(args) == {kv[1] : kv \in args}

Arg(args, key) == (CHOOSE kv \in args : kv[1] = key)[2]

\* f(**args) binds when every required parameter is given and no other
\* keyword than the function's parameters is passed; otherwise TypeError
Binds(args, required, optional) ==
    /\ required \subseteq Keys(args)
    /\ Keys(args) \subseteq (required \cup optional)

Returned(v) == [raised |-> FALSE, value |-> v]
Raised(msg) == [raised |-> TRUE, value |-> Str(msg)]

-----------------------------------------------------------------------------
(* The tools (src/logic/network_tools.py).                                 *)

TOOL_MAP ==
    {"send_packet", "craft_packet_json", "ping_host", "traceroute_host",
     "nmap_scan", "hping3_probe", "quick_port_scan", "arp_scan",
     "dns_lookup_tool", "final_report"}

\* re.match(r'^[\w\.\-]+$', target): the targets of the model that match
ValidTargets == {"10.0.0.1"}

final_report(args) ==
    IF Binds(args, {"report"}, {})
    THEN Returned(Arg(args, "report"))
    ELSE Raised("final_report() got wrong arguments")

\* exit is the exit status of the ping process
ping_host(args, exit) ==
    IF ~Binds(args, {"target"}, {"count", "timeout", "arguments"})
    THEN Raised("ping_host() got wrong arguments")
    ELSE LET target == Arg(args, "target") IN
         IF target.type # "str"
         THEN Raised("expected string or bytes-like object")
         ELSE IF target.repr \notin ValidTargets
         THEN Returned(Str("Ping failed: " \o "Invalid target format"))
         ELSE IF exit = 0
         THEN Returned(Str("1 packets transmitted, 1 received, 0% packet loss"))
         ELSE Returned(Str("Ping failed: " \o "1 packets transmitted, 0 received, 100% packet loss"))

\* TOOL_MAP[tool_name](**tool_args)
CallTool(tool_name, tool_args, exit) ==
    IF tool_name = "final_report"
    THEN final_report(tool_args)
    ELSE ping_host(tool_args, exit)

-----------------------------------------------------------------------------
(* The providers (src/logic/llm_providers.py).                             *)

_providers == {"openai", "gemini", "google", "claude", "anthropic", "ollama"}

priority == <<"openai", "gemini", "claude", "ollama">>

\* the name property of the provider class a key of _providers maps to
ProviderName(key) ==
    CASE key = "openai" -> "OpenAI"
      [] key \in {"gemini", "google"} -> "Google Gemini"
      [] key \in {"claude", "anthropic"} -> "Anthropic Claude"
      [] OTHER -> "Ollama"

\* the model a provider class reads from its environment variable's default
ProviderModel(key) ==
    CASE key = "openai" -> "gpt-3.5-turbo"
      [] key \in {"gemini", "google"} -> "gemini-2.5-flash-lite"
      [] key \in {"claude", "anthropic"} -> "claude-3-5-sonnet-20241022"
      [] OTHER -> "llama3.1:8b"

\* LLMProviderFactory.get_provider: the key, or ValueError. The names of
\* the model are lower case already, so provider_name.lower() is the name.
get_provider(provider_name) ==
    IF provider_name \notin _providers
    THEN Raised("Unknown provider: " \o provider_name)
    ELSE Returned(Str(provider_name))

\* LLMProviderFactory.get_default_provider: the first available provider in
\* priority order, or RuntimeError. available is the set of keys whose
\* is_available is true.
get_default_provider(available) ==
    IF \A i \in 1..Len(priority) : priority[i] \notin available
    THEN Raised("No LLM provider available!")
    ELSE LET first == CHOOSE i \in 1..Len(priority) :
                          /\ priority[i] \in available
                          /\ \A j \in 1..(i - 1) : priority[j] \notin available
         IN  Returned(Str(priority[first]))

NoExecutor == [max_iterations |-> 0, provider |-> None, model_name |-> None]

\* AgentExecutor.__init__ as llm_crafter calls it (provider is not passed).
\* chat_ok: whether provider.get_chat_model() and bind_tools succeed.
AgentExecutorInit(max_iterations, provider_name, available, chat_ok) ==
    LET found == IF provider_name \notin {None, ""}
                 THEN get_provider(provider_name)
                 ELSE get_default_provider(available)
    IN  IF found.raised
        THEN found
        ELSE IF ~chat_ok
        THEN Raised("chat model could not be created")
        ELSE Returned([max_iterations |-> max_iterations,
                       provider |-> ProviderName(found.value.repr),
                       model_name |-> ProviderModel(found.value.repr)])

-----------------------------------------------------------------------------
(* The log events (src/logger.py). The timestamp and the duration are      *)
(* left out: no statement about the loop reads them.                       *)

\* the longest result_preview log_tool_execution writes
PreviewLimit == 200

log_llm_request(ctx) ==
    [type |-> "LLM_REQUEST", user |-> ctx.user, provider |-> ctx.provider_name,
     model |-> ctx.model_name, session_id |-> ctx.session_id]

log_llm_response(ctx, response_length, names) ==
    [type |-> "LLM_RESPONSE", user |-> ctx.user, provider |-> ctx.provider_name,
     model |-> ctx.model_name, session_id |-> ctx.session_id,
     response_length |-> response_length, tool_calls |-> names]

log_llm_error(ctx, error) ==
    [type |-> "LLM_ERROR", user |-> ctx.user, provider |-> ctx.provider_name,
     model |-> ctx.model_name, session_id |-> ctx.session_id, error |-> error]

log_tool_execution(ctx, tool_name, parameters, success, result_preview, error) ==
    [type |-> "TOOL_EXEC", user |-> ctx.user, tool |-> tool_name,
     parameters |-> parameters, source |-> "llm", success |-> success,
     result_preview |-> IF Len(result_preview) > PreviewLimit
                        THEN SubSeq(result_preview, 1, PreviewLimit)
                        ELSE result_preview,
     error |-> error, session_id |-> ctx.session_id]

-----------------------------------------------------------------------------
(* What llm_crafter gives back.                                            *)

NoOutcome == [kind |-> "none", value |-> Str("")]
Return(v) == [kind |-> "return", value |-> v]
Raise(msg) == [kind |-> "raise", value |-> Str(msg)]

\* the text of line 203
MaxIterationsMessage(n) ==
    Str("Maximum iterations (" \o ToString(n) \o
        ") exceeded. Partial results may be available in logs.")

\* the text of line 149
NoOutputMessage == Str("Agent completed without producing output")

-----------------------------------------------------------------------------
(* The scratchpad entries.                                                 *)

AIMessage(tool_call) ==
    [type |-> "ai", content |-> Str(""), tool_call |-> tool_call,
     tool_call_id |-> None]

\* a tool-response entry that drops the identifier of its call
ToolMessage_NoId(content, tool_call_id) ==
    [type |-> "tool", content |-> content, tool_call |-> None,
     tool_call_id |-> None]

ToolMessage(content, tool_call_id) ==
    [type |-> "tool", content |-> content, tool_call |-> None,
     tool_call_id |-> tool_call_id]

-----------------------------------------------------------------------------
(* The inputs.                                                             *)

Users == {"alice"}

\* provider_name as the caller passes it
ProviderChoices == {None, "openai", "bogus"}

\* the sets of provider keys that can be available
Environments == {{}, {"openai", "ollama"}}

\* the text content of a model response without tool calls
Contents == {Str(""), Str("All is well")}

\* the messages of the exceptions self.agent.invoke raises
ModelErrors == {"connection refused"}

\* the exit statuses of the ping process
ExitStatuses == {0, 1}

\* the (name, args) pairs the model requests
CallShapes ==
    {[name |-> "ping_host", args |-> {<<"target", Str("10.0.0.1")>>}],
     [name |-> "ping_host", args |-> {<<"target", Str("; rm -rf /")>>}],
     [name |-> "ping_host", args |-> {}],
     [name |-> "final_report", args |-> {<<"report", Str("DONE")>>}],
     [name |-> "final_report", args |-> {<<"report", Num("7")>>}],
     [name |-> "final_report", args |-> {}],
     [name |-> "no_such_tool", args |-> {<<"target", Str("10.0.0.1")>>}]}

\* the tool calls of a response: shapes, with identifiers numbered from
\* the calls the model has requested before (every call has a text as its
\* identifier, and no two calls share one)
ToolCalls(shapes, before) ==
    [i \in 1..Len(shapes) |->
        [name |-> shapes[i].name, args |-> shapes[i].args,
         id |-> "call_" \o ToString(before + i)]]

\* the batches of n tool calls
Batches(n) == [1..n -> CallShapes]

-----------------------------------------------------------------------------
(* llm_crafter on the threads of the server's pool (src/logic/loop.py,     *)
(* lines 26-43 and 212-252). A SessionContext is an object: contexts       *)
(* holds the objects created so far, and a reference is an index into it.  *)
(* _session_context is a threading.local: each thread has its own          *)
(* attribute `context`.                                                    *)

Threads == {"worker-1", "worker-2"}

\* the invocations of llm_crafter in a run
MaxRequests == 2

\* str(uuid.uuid4())[:8]
SessionIds == {"3f2a9c1e", "77b0c4d2"}

\* no object
NoReference == 0

Idle == [pc |-> "idle", context |-> NoReference, provider_name |-> None,
         finished |-> "none", seen |-> <<>>]

-----------------------------------------------------------------------------
(* The state before llm_crafter is called.                                 *)

\* no tool has been called directly
NoRun == [tool |-> "none"]

NoContext == [user |-> None, session_id |-> None, provider_name |-> None,
              model_name |-> None]

Init ==
    /\ pc = "idle"
    /\ context = NoContext
    /\ executor = NoExecutor
    /\ iteration = 0
    /\ agent_scratchpad = <<>>
    /\ tool_calls = <<>>
    /\ position = 0
    /\ responses = <<>>
    /\ dispatched = <<>>
    /\ log = <<>>
    /\ outcome = NoOutcome
    /\ tool_run = NoRun
    /\ _session_context = [t \in Threads |-> NoReference]
    /\ contexts = <<>>
    /\ crafter = [t \in Threads |-> Idle]

-----------------------------------------------------------------------------
(* llm_crafter, lines 212-252, up to the first model call: the context,    *)
(* the executor, the request event; or the wrapped error when the          *)
(* executor cannot be built.                                               *)

SessionContext(user, provider_name) ==
    [user |-> user, session_id |-> "3f2a9c1e",
     provider_name |-> IF provider_name \in {None, ""} THEN "auto" ELSE provider_name,
     model_name |-> ""]

llm_crafter(user, max_iterations, provider_name, available, chat_ok) ==
    /\ pc = "idle"
    /\ LET created == SessionContext(user, provider_name)
           built == AgentExecutorInit(max_iterations, provider_name, available, chat_ok)
       IN  IF built.raised
           THEN /\ context' = created
                /\ executor' = executor
                /\ log' = Append(log, log_llm_error(created, built.value.repr))
                /\ outcome' = Raise("Agent execution failed: " \o built.value.repr)
                /\ pc' = "done"
           ELSE LET filled == [created EXCEPT !.provider_name = built.value.provider,
                                              !.model_name = built.value.model_name]
                IN  /\ context' = filled
                    /\ executor' = built.value
                    /\ log' = Append(log, log_llm_request(filled))
                    /\ outcome' = outcome
                    /\ pc' = "awaiting"
    /\ UNCHANGED <<iteration, agent_scratchpad, tool_calls, position, responses,
                   dispatched>>

-----------------------------------------------------------------------------
(* AgentExecutor.invoke, lines 116-203.                                    *)

\* the tool calls the model has requested so far
RECURSIVE Requested(_)
Requested(rs) ==
    IF rs = <<>> THEN <<>> ELSE Requested(SubSeq(rs, 1, Len(rs) - 1)) \o rs[Len(rs)].tool_calls

\* line 119: whether range(max_iterations) yields the value i
InRange_Inclusive(i, max_iterations) == 0 <= i /\ i <= max_iterations

InRange(i, max_iterations) == 0 <= i /\ i < max_iterations

\* line 203: range(max_iterations) is exhausted
LoopExhausted ==
    /\ pc = "awaiting"
    /\ ~InRange(iteration, executor.max_iterations)
    /\ outcome' = Return(MaxIterationsMessage(executor.max_iterations))
    /\ pc' = "done"
    /\ UNCHANGED <<context, executor, iteration, agent_scratchpad, tool_calls,
                   position, responses, dispatched, log>>

\* a loop that goes on to the next iteration when the model call fails
ModelCallFails_Retried(e) ==
    /\ pc = "awaiting"
    /\ InRange(iteration, executor.max_iterations)
    /\ responses' = Append(responses, [kind |-> "error", content |-> Str(""),
                                        tool_calls |-> <<>>, error |-> e])
    /\ log' = Append(log, log_llm_error(context, e))
    /\ iteration' = iteration + 1
    /\ UNCHANGED <<pc, context, executor, agent_scratchpad, tool_calls,
                   position, dispatched, outcome>>

\* an except clause that returns the error text without logging it
ModelCallFails_Silent(e) ==
    /\ pc = "awaiting"
    /\ InRange(iteration, executor.max_iterations)
    /\ responses' = Append(responses, [kind |-> "error", content |-> Str(""),
                                        tool_calls |-> <<>>, error |-> e])
    /\ outcome' = Return(Str("LLM invocation error: " \o e))
    /\ pc' = "done"
    /\ UNCHANGED <<context, executor, iteration, agent_scratchpad, tool_calls,
                   position, dispatched, log>>

\* lines 121-135: self.agent.invoke raises e
ModelCallFails(e) ==
    /\ pc = "awaiting"
    /\ InRange(iteration, executor.max_iterations)
    /\ responses' = Append(responses, [kind |-> "error", content |-> Str(""),
                                        tool_calls |-> <<>>, error |-> e])
    /\ log' = Append(log, log_llm_error(context, e))
    /\ outcome' = Return(Str("LLM invocation error: " \o e))
    /\ pc' = "done"
    /\ UNCHANGED <<context, executor, iteration, agent_scratchpad, tool_calls,
                   position, dispatched>>

\* response_length of lines 142 and 156
ResponseLength(content) == IF Truthy(content) THEN Len(PyStr(content).repr) ELSE 0

\* a return of the content that does not test it for emptiness
TextResult_NoSentinel(content) == PyStr(content)

\* lines 147-149: what a response without tool calls makes the loop return
TextResult(content) == IF Truthy(content) THEN PyStr(content) ELSE NoOutputMessage

\* lines 121-160: self.agent.invoke returns a response
ModelResponds(content, calls) ==
    /\ pc = "awaiting"
    /\ InRange(iteration, executor.max_iterations)
    /\ responses' = Append(responses, [kind |-> "message", content |-> content,
                                        tool_calls |-> calls, error |-> None])
    /\ IF calls = <<>>
       THEN /\ log' = Append(log, log_llm_response(context, ResponseLength(content), <<>>))
            /\ outcome' = Return(TextResult(content))
            /\ pc' = "done"
            /\ UNCHANGED <<tool_calls, position>>
       ELSE /\ log' = Append(log, log_llm_response(context, ResponseLength(content),
                                    [i \in 1..Len(calls) |-> calls[i].name]))
            /\ tool_calls' = calls
            /\ position' = 1
            /\ pc' = "dispatching"
            /\ outcome' = outcome
    /\ UNCHANGED <<context, executor, iteration, agent_scratchpad, dispatched>>

\* a try block that looks the name up without the membership test: the
\* KeyError of an unknown name is caught by the except clause
Dispatch_NoMembershipTest(tool_call, exit) ==
    IF tool_call.name \in TOOL_MAP
    THEN LET called == CallTool(tool_call.name, tool_call.args, exit)
         IN  IF called.raised
             THEN [tool_output |-> Str("Tool execution error: " \o called.value.repr),
                   success |-> FALSE, error |-> called.value.repr]
             ELSE [tool_output |-> called.value, success |-> TRUE, error |-> None]
    ELSE [tool_output |-> Str("Tool execution error: " \o tool_call.name),
          success |-> FALSE, error |-> tool_call.name]

\* a try block whose except clause leaves the success flag as the try
\* part would have set it
Dispatch_FlagNotCleared(tool_call, exit) ==
    IF tool_call.name \in TOOL_MAP
    THEN LET called == CallTool(tool_call.name, tool_call.args, exit)
         IN  IF called.raised
             THEN [tool_output |-> Str("Tool execution error: " \o called.value.repr),
                   success |-> TRUE, error |-> called.value.repr]
             ELSE [tool_output |-> called.value, success |-> TRUE, error |-> None]
    ELSE [tool_output |-> Str("Unknown tool: " \o tool_call.name),
          success |-> FALSE, error |-> "Unknown tool"]

\* lines 171-183: the try block around one tool call
Dispatch(tool_call, exit) ==
    IF tool_call.name \in TOOL_MAP
    THEN LET called == CallTool(tool_call.name, tool_call.args, exit)
         IN  IF called.raised
             THEN [tool_output |-> Str("Tool execution error: " \o called.value.repr),
                   success |-> FALSE, error |-> called.value.repr]
             ELSE [tool_output |-> called.value, success |-> TRUE, error |-> None]
    ELSE [tool_output |-> Str("Unknown tool: " \o tool_call.name),
          success |-> FALSE, error |-> "Unknown tool"]

\* a terminal test that looks for another name
IsTerminal_OtherName(tool_call) == tool_call.name = "submit_final_report"

\* lines 200-201: whether the loop returns after this call
IsTerminal(tool_call) == tool_call.name = "final_report"

\* an inner loop without the try block: the exception of a tool leaves
\* invoke and llm_crafter wraps it
DispatchToolCall_Uncaught(exit) ==
    /\ pc = "dispatching"
    /\ LET tool_call == tool_calls[position]
           done == Dispatch(tool_call, exit)
           text == PyStr(done.tool_output)
       IN  IF tool_call.name \in TOOL_MAP /\ ~done.success
           THEN /\ agent_scratchpad' = Append(agent_scratchpad, AIMessage(tool_call))
                /\ dispatched' = Append(dispatched, tool_call)
                /\ log' = Append(log, log_llm_error(context, done.error))
                /\ outcome' = Raise("Agent execution failed: " \o done.error)
                /\ pc' = "done"
                /\ UNCHANGED <<iteration, tool_calls, position>>
           ELSE /\ agent_scratchpad' = agent_scratchpad \o
                        <<AIMessage(tool_call), ToolMessage(text, tool_call.id)>>
                /\ dispatched' = Append(dispatched, tool_call)
                /\ log' = Append(log, log_tool_execution(context, tool_call.name,
                               tool_call.args, done.success, text.repr, done.error))
                /\ IF IsTerminal(tool_call)
                   THEN /\ outcome' = Return(text)
                        /\ pc' = "done"
                        /\ UNCHANGED <<iteration, tool_calls, position>>
                   ELSE IF position < Len(tool_calls)
                   THEN /\ position' = position + 1
                        /\ UNCHANGED <<pc, iteration, tool_calls, outcome>>
                   ELSE /\ iteration' = iteration + 1
                        /\ tool_calls' = <<>>
                        /\ position' = 0
                        /\ pc' = "awaiting"
                        /\ outcome' = outcome
    /\ UNCHANGED <<context, executor, responses>>

\* an inner loop whose final_report test stands after the loop body, so that
\* it is made once the batch is through
DispatchToolCall_TestAfterBatch(exit) ==
    /\ pc = "dispatching"
    /\ LET tool_call == tool_calls[position]
           done == Dispatch(tool_call, exit)
           text == PyStr(done.tool_output)
       IN  /\ agent_scratchpad' = agent_scratchpad \o
                   <<AIMessage(tool_call), ToolMessage(text, tool_call.id)>>
           /\ dispatched' = Append(dispatched, tool_call)
           /\ log' = Append(log, log_tool_execution(context, tool_call.name,
                          tool_call.args, done.success, text.repr, done.error))
           /\ IF position < Len(tool_calls)
              THEN /\ position' = position + 1
                   /\ UNCHANGED <<pc, iteration, tool_calls, outcome>>
              ELSE IF IsTerminal(tool_call)
              THEN /\ outcome' = Return(text)
                   /\ pc' = "done"
                   /\ UNCHANGED <<iteration, tool_calls, position>>
              ELSE /\ iteration' = iteration + 1
                   /\ tool_calls' = <<>>
                   /\ position' = 0
                   /\ pc' = "awaiting"
                   /\ outcome' = outcome
    /\ UNCHANGED <<context, executor, responses>>

\* lines 162-201: one pass of the inner for loop, for tool_calls[position]
DispatchToolCall(exit) ==
    /\ pc = "dispatching"
    /\ LET tool_call == tool_calls[position]
           done == Dispatch(tool_call, exit)
           text == PyStr(done.tool_output)
       IN  /\ agent_scratchpad' = agent_scratchpad \o
                   <<AIMessage(tool_call), ToolMessage(text, tool_call.id)>>
           /\ dispatched' = Append(dispatched, tool_call)
           /\ log' = Append(log, log_tool_execution(context, tool_call.name,
                          tool_call.args, done.success, text.repr, done.error))
           /\ IF IsTerminal(tool_call)
              THEN /\ outcome' = Return(text)
                   /\ pc' = "done"
                   /\ UNCHANGED <<iteration, tool_calls, position>>
              ELSE IF position < Len(tool_calls)
              THEN /\ position' = position + 1
                   /\ UNCHANGED <<pc, iteration, tool_calls, outcome>>
              ELSE \* the batch is finished: the next pass of the outer loop
                   /\ iteration' = iteration + 1
                   /\ tool_calls' = <<>>
                   /\ position' = 0
                   /\ pc' = "awaiting"
                   /\ outcome' = outcome
    /\ UNCHANGED <<context, executor, responses>>

-----------------------------------------------------------------------------

\* A response that requests tools carries no text content here; one without
\* tool calls carries any of Contents.
Next ==
    \/ \E user \in Users, max_iterations \in 0..MaxIterations,
          provider_name \in ProviderChoices, available \in Environments,
          chat_ok \in BOOLEAN :
          /\ llm_crafter(user, max_iterations, provider_name, available, chat_ok)
          /\ UNCHANGED <<tool_run, session_vars>>
    \/ LoopExhausted /\ UNCHANGED <<tool_run, session_vars>>
    \/ \E e \in ModelErrors : ModelCallFails(e) /\ UNCHANGED <<tool_run, session_vars>>
    \/ \E content \in Contents : ModelResponds(content, <<>>) /\ UNCHANGED <<tool_run, session_vars>>
    \/ LET before == Len(Requested(responses))
       IN  \E n \in 1..MaxBatch :
              /\ before + n <= MaxCalls
              /\ \E shapes \in Batches(n) :
                     /\ ModelResponds(Str(""), ToolCalls(shapes, before))
                     /\ UNCHANGED <<tool_run, session_vars>>
    \/ \E exit \in ExitStatuses : DispatchToolCall(exit) /\ UNCHANGED <<tool_run, session_vars>>

Spec == Init /\ [][Next]_vars

-----------------------------------------------------------------------------
(* The same call of llm_crafter with a logger whose calls can raise. No    *)
(* log call of loop.py stands in a try block of its own: an exception of   *)
(* the logger leaves invoke (lines 128, 138, 152, 185) or the try block of *)
(* llm_crafter (line 233) and reaches the except clause of llm_crafter     *)
(* (lines 244-252), which logs again and raises.                           *)

\* str(e) of the exceptions a log call raises
LoggerErrors == {"Circular reference detected"}

\* lines 244-252 on the exception of a log call; again: log_llm_error
\* raises as well, and its exception is the one that leaves llm_crafter
CrafterHandler(ctx, error, again) ==
    IF again
    THEN /\ log' = log
         /\ outcome' = Raise(error)
    ELSE /\ log' = Append(log, log_llm_error(ctx, error))
         /\ outcome' = Raise("Agent execution failed: " \o error)

\* line 233 raises
RequestLogRaises(user, max_iterations, provider_name, available, error, again) ==
    /\ pc = "idle"
    /\ LET created == SessionContext(user, provider_name)
           built == AgentExecutorInit(max_iterations, provider_name, available, TRUE)
           filled == [created EXCEPT !.provider_name = built.value.provider,
                                     !.model_name = built.value.model_name]
       IN  /\ ~built.raised
           /\ context' = filled
           /\ executor' = built.value
           /\ CrafterHandler(filled, error, again)
    /\ pc' = "done"
    /\ UNCHANGED <<iteration, agent_scratchpad, tool_calls, position, responses,
                   dispatched>>

\* line 128 raises: the model call failed with e, and so does the log call
ErrorLogRaises(e, error, again) ==
    /\ pc = "awaiting"
    /\ InRange(iteration, executor.max_iterations)
    /\ responses' = Append(responses, [kind |-> "error", content |-> Str(""),
                                        tool_calls |-> <<>>, error |-> e])
    /\ CrafterHandler(context, error, again)
    /\ pc' = "done"
    /\ UNCHANGED <<context, executor, iteration, agent_scratchpad, tool_calls,
                   position, dispatched>>

\* line 138 or 152 raises: the model responded, the log call fails
ResponseLogRaises(content, calls, error, again) ==
    /\ pc = "awaiting"
    /\ InRange(iteration, executor.max_iterations)
    /\ responses' = Append(responses, [kind |-> "message", content |-> content,
                                        tool_calls |-> calls, error |-> None])
    /\ CrafterHandler(context, error, again)
    /\ pc' = "done"
    /\ UNCHANGED <<context, executor, iteration, agent_scratchpad, tool_calls,
                   position, dispatched>>

\* line 185 raises: the tool was called, the log call fails before the
\* ToolMessage is appended
ToolLogRaises(error, again) ==
    /\ pc = "dispatching"
    /\ agent_scratchpad' = Append(agent_scratchpad, AIMessage(tool_calls[position]))
    /\ dispatched' = Append(dispatched, tool_calls[position])
    /\ CrafterHandler(context, error, again)
    /\ pc' = "done"
    /\ UNCHANGED <<context, executor, iteration, tool_calls, position, responses>>

LoggingNext ==
    \/ Next
    \/ \E user \in Users, max_iterations \in 0..MaxIterations,
          provider_name \in ProviderChoices, available \in Environments,
          error \in LoggerErrors, again \in BOOLEAN :
          /\ RequestLogRaises(user, max_iterations, provider_name, available,
                              error, again)
          /\ UNCHANGED <<tool_run, session_vars>>
    \/ \E e \in ModelErrors, error \in LoggerErrors, again \in BOOLEAN :
          /\ ErrorLogRaises(e, error, again)
          /\ UNCHANGED <<tool_run, session_vars>>
    \/ \E content \in Contents, error \in LoggerErrors, again \in BOOLEAN :
          /\ ResponseLogRaises(content, <<>>, error, again)
          /\ UNCHANGED <<tool_run, session_vars>>
    \/ LET before == Len(Requested(responses))
       IN  \E n \in 1..MaxBatch :
              /\ before + n <= MaxCalls
              /\ \E shapes \in Batches(n), error \in LoggerErrors, again \in BOOLEAN :
                     /\ ResponseLogRaises(Str(""), ToolCalls(shapes, before),
                                          error, again)
                     /\ UNCHANGED <<tool_run, session_vars>>
    \/ \E error \in LoggerErrors, again \in BOOLEAN :
          /\ ToolLogRaises(error, again)
          /\ UNCHANGED <<tool_run, session_vars>>

LoggingSpec == Init /\ [][LoggingNext]_vars

-----------------------------------------------------------------------------
(* What the statements below read off a state.                             *)

\* llm_crafter built the executor, so invoke was entered
Invoked == executor # NoExecutor

\* response r requests tools and none of them is final_report
RequestsNonTerminal(r) ==
    /\ r.kind = "message"
    /\ r.tool_calls # <<>>
    /\ \A k \in 1..Len(r.tool_calls) : r.tool_calls[k].name # "final_report"

\* the position of the first final_report in calls, 0 when there is none
FirstTerminal(calls) ==
    IF \A k \in 1..Len(calls) : calls[k].name # "final_report"
    THEN 0
    ELSE CHOOSE k \in 1..Len(calls) :
             /\ calls[k].name = "final_report"
             /\ \A j \in 1..(k - 1) : calls[j].name # "final_report"

\* the number of tool-execution events in the log
ToolEvents == Cardinality({i \in 1..Len(log) : log[i].type = "TOOL_EXEC"})

-----------------------------------------------------------------------------
\* C1: a run of invoke never makes more than max_iterations model calls;
\* when every model call requested tools and none of them was final_report,
\* the finished run made exactly max_iterations model calls and returned
\* the "Maximum iterations (N) exceeded..." text (it did not raise).
C1_IterationCeiling ==
    /\ Len(responses) <= executor.max_iterations
    /\ (/\ pc = "done"
        /\ Invoked
        /\ \A i \in 1..Len(responses) : RequestsNonTerminal(responses[i]))
       => /\ Len(responses) = executor.max_iterations
          /\ outcome.kind = "return"
          /\ outcome.value = Str("Maximum iterations (" \o
                 ToString(executor.max_iterations) \o
                 ") exceeded. Partial results may be available in logs.")

\* max_iterations = 3, three model calls that all requested a tool, and the
\* partial-results text
C1_Witness ==
    /\ pc = "done"
    /\ executor.max_iterations = 3
    /\ Len(responses) = 3
    /\ \A i \in 1..3 : RequestsNonTerminal(responses[i])
    /\ outcome = Return(Str("Maximum iterations (3) exceeded. Partial results may be available in logs."))

\* C2: when the first call of the first model response is final_report with
\* the single argument report = R, R a text, the run makes one model call,
\* dispatches one tool call and returns R.
C2_FirstCallFinalReport ==
    (/\ Len(responses) >= 1
     /\ responses[1].tool_calls # <<>>
     /\ responses[1].tool_calls[1].name = "final_report"
     /\ Keys(responses[1].tool_calls[1].args) = {"report"}
     /\ Arg(responses[1].tool_calls[1].args, "report").type = "str")
    => /\ Len(responses) = 1
       /\ pc \in {"dispatching", "done"}
       /\ pc = "dispatching" => dispatched = <<>>
       /\ pc = "done" =>
             /\ Len(dispatched) = 1
             /\ outcome = Return(Arg(responses[1].tool_calls[1].args, "report"))

\* the run of the example: final_report(report = "DONE") first, "DONE" returned
C2_Witness ==
    /\ pc = "done"
    /\ Len(responses) = 1
    /\ Len(dispatched) = 1
    /\ dispatched[1].name = "final_report"
    /\ dispatched[1].args = {<<"report", Str("DONE")>>}
    /\ outcome = Return(Str("DONE"))

\* C3: while a batch with final_report at position k is processed, the calls
\* are dispatched in the order received and never past position k; the loop
\* is done right after call k, with the tool response of call k as its
\* result, no later call of the batch dispatched, logged or put on the
\* scratchpad, and no model call after the one that returned the batch.
C3_TerminalStopsBatch ==
    LET k == FirstTerminal(tool_calls)
        requested == Requested(responses)
        before == Len(requested) - Len(tool_calls)
    IN  k > 0 =>
          /\ responses[Len(responses)].tool_calls = tool_calls
          /\ 1 <= position /\ position <= k
          /\ pc \in {"dispatching", "done"}
          /\ pc = "dispatching" =>
                dispatched = SubSeq(requested, 1, before + position - 1)
          /\ pc = "done" =>
                /\ position = k
                /\ dispatched = SubSeq(requested, 1, before + k)
                /\ Len(agent_scratchpad) = 2 * (before + k)
                /\ ToolEvents = before + k
                /\ outcome = Return(agent_scratchpad[Len(agent_scratchpad)].content)

\* a finished run whose last batch has a call after final_report, and an
\* earlier batch before it
C3_Witness ==
    /\ pc = "done"
    /\ Len(responses) = 2
    /\ Len(tool_calls) = 2
    /\ tool_calls[1].name = "final_report"
    /\ Len(dispatched) = Len(responses[1].tool_calls) + 1

\* C4: a failed model call is the last thing the loop does: it is the last
\* model call, the loop is done, every tool call dispatched was requested
\* before the failure, and the result is the text that carries the error.
C4_ModelFailureEndsLoop ==
    \A i \in 1..Len(responses) :
        responses[i].kind = "error" =>
          /\ i = Len(responses)
          /\ pc = "done"
          /\ dispatched = Requested(SubSeq(responses, 1, i - 1))
          /\ Len(agent_scratchpad) = 2 * Len(dispatched)
          /\ outcome = Return(Str("LLM invocation error: " \o responses[i].error))

\* the model call of the second iteration failed, after one dispatched batch
C4_Witness ==
    /\ pc = "done"
    /\ Len(responses) = 2
    /\ responses[2].kind = "error"
    /\ Len(dispatched) >= 1
    /\ outcome = Return(Str("LLM invocation error: connection refused"))

\* C5: when a model call has failed, the finished llm_crafter has raised the
\* wrapped RuntimeError and has not returned a text.
C5_CapabilityFailureRaises ==
    (/\ pc = "done"
     /\ \E i \in 1..Len(responses) : responses[i].kind = "error")
    => /\ outcome.kind = "raise"
       /\ outcome.value = Str("Agent execution failed: " \o
                               responses[Len(responses)].error)

\* C6: llm_crafter raises only when the executor could not be built (the
\* provider is unknown, unavailable, or its chat model cannot be created),
\* before any model call or dispatch; once invoke is entered, whatever the
\* tool calls do (unknown name, rejected target, exception in the tool),
\* the finished llm_crafter has returned a text.
C6_ToolFailuresNeverRaise ==
    /\ outcome.kind = "raise" =>
          /\ ~Invoked
          /\ responses = <<>>
          /\ dispatched = <<>>
    /\ (pc = "done" /\ Invoked) =>
          /\ outcome.kind = "return"
          /\ outcome.value.type = "str"

\* a finished run that returned a text after an unknown tool, a rejected
\* target and a tool that raised
C6_Witness ==
    /\ pc = "done"
    /\ outcome.kind = "return"
    /\ \E i, j, k \in 1..Len(log) :
          /\ log[i].type = "TOOL_EXEC" /\ log[i].error = "Unknown tool"
          /\ log[j].type = "TOOL_EXEC"
          /\ log[j].result_preview = "Ping failed: Invalid target format"
          /\ log[k].type = "TOOL_EXEC" /\ log[k].tool = "ping_host"
          /\ log[k].error = "ping_host() got wrong arguments"

\* the loop goes on after the i-th dispatched call, the last one so far: it
\* stands at the next call of the batch, or the batch is through and it
\* stands at the loop head, or it has ended there since, by the ceiling or
\* by a later model call that failed or requested no tool
GoesOnAfter(i) ==
    LET requested == Requested(responses)
    IN  IF i < Len(requested)
        THEN /\ pc = "dispatching"
             /\ tool_calls[position] = requested[i + 1]
        ELSE \/ /\ pc = "awaiting"
                /\ InRange(iteration, executor.max_iterations) =>
                      ENABLED (\E content \in Contents : ModelResponds(content, <<>>))
             \/ /\ pc = "done"
                /\ \/ /\ ~InRange(iteration, executor.max_iterations)
                      /\ outcome = Return(MaxIterationsMessage(executor.max_iterations))
                   \/ responses[Len(responses)].tool_calls = <<>>

ToolRaises(tool_call) ==
    /\ tool_call.name \in TOOL_MAP
    /\ CallTool(tool_call.name, tool_call.args, 0).raised

\* C8: every dispatched call whose tool raised has the tool response
\* "Tool execution error: <message>" under its identifier, nothing is raised
\* out of the loop, and the loop goes on with the next call or iteration.
C8_ToolExceptionContinues ==
    \A i \in 1..Len(dispatched) :
        ToolRaises(dispatched[i]) =>
          /\ agent_scratchpad[2 * i] =
                [type |-> "tool", tool_call |-> None,
                 content |-> Str("Tool execution error: " \o
                     CallTool(dispatched[i].name, dispatched[i].args, 0).value.repr),
                 tool_call_id |-> dispatched[i].id]
          /\ outcome.kind # "raise"
          /\ i = Len(dispatched) => GoesOnAfter(i)

\* the scratchpad holds one (assistant entry, tool response) pair for each
\* dispatched call, in the order the model requested the calls
ScratchpadPairs ==
    /\ Len(agent_scratchpad) = 2 * Len(dispatched)
    /\ Len(dispatched) <= Len(Requested(responses))
    /\ dispatched = SubSeq(Requested(responses), 1, Len(dispatched))
    /\ \A i \in 1..Len(dispatched) :
          /\ agent_scratchpad[2 * i - 1].type = "ai"
          /\ agent_scratchpad[2 * i - 1].tool_call = dispatched[i]
          /\ agent_scratchpad[2 * i].type = "tool"
          /\ agent_scratchpad[2 * i].tool_call_id =
                agent_scratchpad[2 * i - 1].tool_call.id

\* C9: in every state the scratchpad is such a sequence of pairs; where the
\* model is called (the loop head) there is a pair for every call requested
\* so far; and a step only appends to the scratchpad.
C9_ScratchpadOrder ==
    /\ [](ScratchpadPairs /\
          (pc = "awaiting" => dispatched = Requested(responses)))
    /\ [][/\ Len(agent_scratchpad') >= Len(agent_scratchpad)
          /\ SubSeq(agent_scratchpad', 1, Len(agent_scratchpad)) = agent_scratchpad]_vars

\* the loop head after two batches, with three pairs on the scratchpad
C9_Witness ==
    /\ pc = "awaiting"
    /\ Len(responses) = 2
    /\ Len(agent_scratchpad) = 6
    /\ agent_scratchpad[6].tool_call_id = "call_3"

\* C10: a model response without tool calls is the last model call; the loop
\* is done, nothing was dispatched but the calls of the earlier responses,
\* and the result is the content as it is, or "Agent completed without
\* producing output" when the content is empty.
C10_TextResponseEndsLoop ==
    \A i \in 1..Len(responses) :
        (responses[i].kind = "message" /\ responses[i].tool_calls = <<>>) =>
          /\ i = Len(responses)
          /\ pc = "done"
          /\ dispatched = Requested(SubSeq(responses, 1, i - 1))
          /\ Len(agent_scratchpad) = 2 * Len(dispatched)
          /\ outcome.kind = "return"
          /\ outcome.value =
                IF responses[i].content.repr = ""
                THEN Str("Agent completed without producing output")
                ELSE responses[i].content

\* a first response with empty content and no tool calls
C10_Witness ==
    /\ pc = "done"
    /\ Len(responses) = 1
    /\ responses[1].kind = "message"
    /\ responses[1].tool_calls = <<>>
    /\ responses[1].content = Str("")
    /\ dispatched = <<>>
    /\ outcome = Return(Str("Agent completed without producing output"))

-----------------------------------------------------------------------------
\* how often the call with this identifier was dispatched
TimesDispatched(id) == Cardinality({j \in 1..Len(dispatched) : dispatched[j].id = id})

\* the requested call i stands behind a final_report in the last response
BehindTerminal(i) ==
    LET requested == Requested(responses)
        last == responses[Len(responses)].tool_calls
        before == Len(requested) - Len(last)
    IN  /\ FirstTerminal(last) > 0
        /\ i > before + FirstTerminal(last)

\* C11 as stated: in a finished run every tool call the model requested
\* was dispatched exactly once.
C11_ExactlyOnce ==
    (pc = "done" /\ Invoked) =>
        \A i \in 1..Len(Requested(responses)) :
            TimesDispatched(Requested(responses)[i].id) = 1

\* C11, amended: no tool call is ever dispatched twice; at the loop head and
\* in a finished run every requested call was dispatched exactly once,
\* except the calls behind a final_report in their response, which are
\* never dispatched.
C11_AtMostOnce ==
    \A i \in 1..Len(Requested(responses)) :
        LET times == TimesDispatched(Requested(responses)[i].id)
        IN  /\ times <= 1
            /\ pc \in {"awaiting", "done"} =>
                  times = IF BehindTerminal(i) THEN 0 ELSE 1

\* a finished run with one call dispatched once in an earlier response and
\* one call behind final_report that was never dispatched
C11_Witness ==
    /\ pc = "done"
    /\ Len(responses) = 2
    /\ Len(Requested(responses)) = 3
    /\ BehindTerminal(3)
    /\ TimesDispatched("call_1") = 1
    /\ TimesDispatched("call_3") = 0

-----------------------------------------------------------------------------
(***************************************************************************)
(* Direct calls of the tools of src/logic/network_tools.py.                *)
(*                                                                         *)
(* JSON: a text is valid or not, has a layout, and denotes a value whose   *)
(* objects are written as a sequence of members, in which a name may occur *)
(* more than once.  json.loads builds the dict; json.dumps writes a text.  *)
(***************************************************************************)
MaxLayers == 2

JNull == [kind |-> "null", repr |-> "null", members |-> <<>>]
JNumber(n) == [kind |-> "number", repr |-> n, members |-> <<>>]
JString(t) == [kind |-> "string", repr |-> t, members |-> <<>>]
JList == [kind |-> "list", repr |-> "[1, 2]", members |-> <<>>]
JObject(members) == [kind |-> "object", repr |-> "", members |-> members]

Member(name, value) == [name |-> name, value |-> value]

\* dict[name] = value: a name already there keeps its place and takes the
\* new value
SetItem(dict, m) ==
    IF \E i \in 1..Len(dict) : dict[i].name = m.name
    THEN [i \in 1..Len(dict) |-> IF dict[i].name = m.name THEN m ELSE dict[i]]
    ELSE Append(dict, m)

RECURSIVE FromPairs(_)
FromPairs(members) ==
    IF members = <<>> THEN <<>>
    ELSE SetItem(FromPairs(SubSeq(members, 1, Len(members) - 1)),
                 members[Len(members)])

RECURSIVE Decoded(_)
Decoded(written) ==
    IF written.kind = "object"
    THEN JObject(FromPairs([i \in 1..Len(written.members) |->
                    Member(written.members[i].name,
                           Decoded(written.members[i].value))]))
    ELSE written

JSONDecodeError == "Expecting value: line 1 column 1 (char 0)"

json_loads(text) ==
    IF text.valid THEN Returned(Decoded(text.written))
    ELSE [raised |-> TRUE, value |-> JString(JSONDecodeError)]

json_dumps(value, indent) == [valid |-> TRUE, indent |-> indent, written |-> value]

-----------------------------------------------------------------------------
\* the layer classes of send_packet, in the order of the dict
ALLOWED_LAYERS == <<"Ether", "IP", "ARP", "TCP", "UDP", "ICMP", "Raw">>

AllowedNames == {ALLOWED_LAYERS[i] : i \in 1..Len(ALLOWED_LAYERS)}

\* repr of a list of str
RECURSIVE ListRepr(_)
ListRepr(names) ==
    IF names = <<>> THEN ""
    ELSE IF Len(names) = 1 THEN "'" \o names[1] \o "'"
    ELSE ListRepr(SubSeq(names, 1, Len(names) - 1)) \o ", '"
             \o names[Len(names)] \o "'"

\* the fields a layer class takes as keyword arguments
fields_desc ==
    [layer_name \in AllowedNames |->
        CASE layer_name = "Ether" -> {"dst", "src", "type"}
          [] layer_name = "IP"    -> {"dst", "src", "ttl"}
          [] layer_name = "ARP"   -> {"pdst", "op"}
          [] layer_name = "TCP"   -> {"dport", "sport", "flags"}
          [] layer_name = "UDP"   -> {"dport", "sport"}
          [] layer_name = "ICMP"  -> {"type", "code"}
          [] OTHER                -> {"load"}]

\* layer_cls(**fields)
layer_cls(layer_name, fields) ==
    IF fields.kind # "object"
    THEN Raised("argument after ** must be a mapping, not " \o fields.kind)
    ELSE IF \E i \in 1..Len(fields.members) :
                fields.members[i].name \notin fields_desc[layer_name]
    THEN Raised(fields.members[CHOOSE i \in 1..Len(fields.members) :
                    /\ fields.members[i].name \notin fields_desc[layer_name]
                    /\ \A j \in 1..(i - 1) :
                         fields.members[j].name \in fields_desc[layer_name]
                ].name)
    ELSE Returned(Str(layer_name))

ResponseTimeout == 2

\* the for loop of send_packet from layer i on; pkt is the stack of the
\* layers constructed so far (<<>> is None), attempted the layer classes
\* called so far
RECURSIVE BuildLayers(_, _, _, _)
BuildLayers(layers, i, pkt, attempted) ==
    IF i > Len(layers)
    THEN [returned |-> FALSE, result |-> "", pkt |-> pkt, attempted |-> attempted]
    ELSE LET layer_name == layers[i].name
             fields == layers[i].value
         IN  IF layer_name \notin AllowedNames
             THEN [returned |-> TRUE,
                   result |-> "Unknown or disallowed layer: " \o layer_name
                                \o ". Allowed: [" \o ListRepr(ALLOWED_LAYERS) \o "]",
                   pkt |-> pkt, attempted |-> attempted]
             ELSE LET layer == layer_cls(layer_name, fields)
                  IN  IF layer.raised
                      THEN [returned |-> TRUE,
                            result |-> "Error creating " \o layer_name
                                         \o " layer: " \o layer.value.repr,
                            pkt |-> pkt,
                            attempted |-> Append(attempted, layer_name)]
                      ELSE BuildLayers(layers, i + 1, Append(pkt, layer_name),
                                       Append(attempted, layer_name))

\* what the network does with a packet handed to sr, srp or send
Replies == {"answered", "silent", "error"}

AnsweredRepr == "<IP  version=4 src=10.0.0.1 |>"

\* the scapy function send_packet calls
Primitive(is_ethernet, want_response) ==
    IF is_ethernet
    THEN IF want_response THEN "srp" ELSE "send"
    ELSE IF want_response THEN "sr" ELSE "send"

\* the try block that sends pkt; a primitive handed None raises
Transmit(pkt, is_ethernet, want_response, reply) ==
    [primitive |-> Primitive(is_ethernet, want_response),
     timeout |-> IF want_response THEN <<ResponseTimeout>> ELSE <<>>,
     result |->
        IF pkt = <<>>
        THEN "Error sending packet: 'NoneType' object is not iterable"
        ELSE IF reply = "error"
        THEN "Error sending packet: [Errno 1] Operation not permitted"
        ELSE IF want_response
        THEN IF reply = "answered" THEN AnsweredRepr ELSE "No response received"
        ELSE "Packet sent successfully"]

NotSent == [primitive |-> "none", timeout |-> <<>>]

send_packet(pkt_desc, is_ethernet, want_response, reply) ==
    LET layers == json_loads(pkt_desc)
        call == [tool |-> "send_packet", pkt_desc |-> pkt_desc,
                 is_ethernet |-> is_ethernet, want_response |-> want_response,
                 reply |-> reply]
        nothing == [constructed |-> <<>>, attempted |-> <<>>] @@ NotSent
    IN  IF layers.raised
        THEN call @@ nothing @@
             [raised |-> FALSE,
              result |-> "Invalid JSON: " \o layers.value.repr]
        ELSE IF layers.value.kind # "object"
        THEN call @@ nothing @@
             [raised |-> TRUE,
              result |-> "'" \o layers.value.kind
                           \o "' object has no attribute 'items'"]
        ELSE LET built == BuildLayers(layers.value.members, 1, <<>>, <<>>)
                 sent == Transmit(built.pkt, is_ethernet, want_response, reply)
             IN  IF built.returned
                 THEN call @@ NotSent @@
                      [raised |-> FALSE, result |-> built.result,
                       constructed |-> built.pkt, attempted |-> built.attempted]
                 ELSE call @@
                      [raised |-> FALSE, result |-> sent.result,
                       constructed |-> built.pkt, attempted |-> built.attempted,
                       primitive |-> sent.primitive, timeout |-> sent.timeout]

\* returns the JSON text json.dumps wrote (text), or the error text (result)
craft_packet_json(pkt_desc) ==
    LET layers == json_loads(pkt_desc)
        call == [tool |-> "craft_packet_json", pkt_desc |-> pkt_desc,
                 raised |-> FALSE] @@ NotSent
    IN  IF layers.raised
        THEN call @@ [result |-> "Invalid JSON: " \o layers.value.repr,
                      text |-> <<>>]
        ELSE call @@ [result |-> "",
                      text |-> <<json_dumps(layers.value, "2")>>]

-----------------------------------------------------------------------------
\* the packet descriptions the callers pass
LayerNames == {"Ether", "IP", "TCP", "Foo"}

FieldValues == {JObject(<<>>),
                JObject(<<Member("bogus", JNumber("1"))>>),
                JNumber("5")}

Layers(n) == [1..n -> {Member(name, value) : name \in LayerNames,
                                             value \in FieldValues}]

Indents == {"none", "2"}

PacketDescriptions ==
    {[valid |-> FALSE, indent |-> "none", written |-> JNull]}
    \cup {[valid |-> TRUE, indent |-> "none", written |-> v] :
             v \in {JNull, JNumber("5"), JString("IP"), JList}}
    \cup {[valid |-> TRUE, indent |-> indent, written |-> JObject(members)] :
             indent \in Indents,
             members \in UNION {Layers(n) : n \in 0..MaxLayers}}

SendPacket(pkt_desc, is_ethernet, want_response, reply) ==
    /\ tool_run = NoRun
    /\ tool_run' = send_packet(pkt_desc, is_ethernet, want_response, reply)
    /\ UNCHANGED <<loop_vars, session_vars>>

CraftPacketJson(pkt_desc) ==
    /\ tool_run = NoRun
    /\ tool_run' = craft_packet_json(pkt_desc)
    /\ UNCHANGED <<loop_vars, session_vars>>

-----------------------------------------------------------------------------
(***************************************************************************)
(* Text: str values are strings; Char, Strip, Split, int() and float() and *)
(* the regular expressions of network_tools.py work on their characters.   *)
(***************************************************************************)
Char(text, i) == SubSeq(text, i, i)

Digits == {"0", "1", "2", "3", "4", "5", "6", "7", "8", "9"}

Letters == {"a", "b", "c", "d", "e", "f", "g", "h", "i", "j", "k", "l", "m",
            "n", "o", "p", "q", "r", "s", "t", "u", "v", "w", "x", "y", "z",
            "A", "B", "C", "D", "E", "F", "G", "H", "I", "J", "K", "L", "M",
            "N", "O", "P", "Q", "R", "S", "T", "U", "V", "W", "X", "Y", "Z"}

\* \w
WordChars == Letters \cup Digits \cup {"_"}

\* \s
Whitespace == {" ", "\t", "\n", "\r"}

AllIn(text, class) == \A i \in 1..Len(text) : Char(text, i) \in class

\* text[i:] starts with prefix
StartsWithAt(text, i, prefix) ==
    /\ i >= 1
    /\ i + Len(prefix) - 1 <= Len(text)
    /\ SubSeq(text, i, i + Len(prefix) - 1) = prefix

\* the end of the longest run of class characters that starts at i
\* (i - 1 when text[i] is not in the class)
RunEnd(text, i, class) ==
    IF \E j \in i..Len(text) : Char(text, j) \notin class
    THEN (CHOOSE j \in i..Len(text) :
             /\ Char(text, j) \notin class
             /\ \A k \in i..(j - 1) : Char(text, k) \in class) - 1
    ELSE Len(text)

\* '$' matches at the end and before a newline that ends the text
BeforeDollar(text) ==
    IF Len(text) > 0 /\ Char(text, Len(text)) = "\n"
    THEN SubSeq(text, 1, Len(text) - 1)
    ELSE text

\* re.match(r'^[class]+$', text)
MatchesClass(text, class) ==
    \/ Len(text) > 0 /\ AllIn(text, class)
    \/ Len(BeforeDollar(text)) > 0 /\ AllIn(BeforeDollar(text), class)

\* re.match(r'^[\w\.\-]+$', target)
HostPattern(target) == MatchesClass(target, WordChars \cup {".", "-"})

\* re.match(r'^[\w\.\-\/]+$', target)
HostOrNetPattern(target) == MatchesClass(target, WordChars \cup {".", "-", "/"})

\* re.match(r'^[\d\.]+$', target)
AddressPattern(target) == MatchesClass(target, Digits \cup {"."})

\* re.match(r'^[\d\.]+/\d+$', network)
CidrPattern(network) ==
    LET address == RunEnd(network, 1, Digits \cup {"."})
    IN  /\ address >= 1
        /\ StartsWithAt(network, address + 1, "/")
        /\ MatchesClass(SubSeq(network, address + 2, Len(network)), Digits)

\* re.match(r'^[\d,\-]+$', ports)
PortsPattern(ports) == MatchesClass(ports, Digits \cup {",", "-"})

\* text.strip()
RECURSIVE Strip(_)
Strip(text) ==
    IF text = "" THEN ""
    ELSE IF Char(text, 1) \in Whitespace THEN Strip(SubSeq(text, 2, Len(text)))
    ELSE IF Char(text, Len(text)) \in Whitespace
    THEN Strip(SubSeq(text, 1, Len(text) - 1))
    ELSE text

\* text.split(sep) for a separator of one character
RECURSIVE Split(_, _)
Split(text, sep) ==
    IF \E i \in 1..Len(text) : Char(text, i) = sep
    THEN LET i == CHOOSE i \in 1..Len(text) :
                     /\ Char(text, i) = sep
                     /\ \A k \in 1..(i - 1) : Char(text, k) # sep
         IN  <<SubSeq(text, 1, i - 1)>> \o Split(SubSeq(text, i + 1, Len(text)), sep)
    ELSE <<text>>

\* text.split(): the words between runs of whitespace
RECURSIVE Words(_)
Words(text) ==
    IF text = "" THEN <<>>
    ELSE IF Char(text, 1) \in Whitespace THEN Words(SubSeq(text, 2, Len(text)))
    ELSE LET end == IF \E j \in 1..Len(text) : Char(text, j) \in Whitespace
                    THEN (CHOOSE j \in 1..Len(text) :
                             /\ Char(text, j) \in Whitespace
                             /\ \A k \in 1..(j - 1) : Char(text, k) \notin Whitespace) - 1
                    ELSE Len(text)
         IN  <<SubSeq(text, 1, end)>> \o Words(SubSeq(text, end + 1, Len(text)))

DigitValue(c) == CHOOSE d \in 0..9 : ToString(d) = c

\* the number a run of digits writes
RECURSIVE Decimal(_)
Decimal(digits) ==
    IF digits = "" THEN 0
    ELSE 10 * Decimal(SubSeq(digits, 1, Len(digits) - 1))
            + DigitValue(Char(digits, Len(digits)))

\* int(text): digits with an optional sign, whitespace around them stripped
IsInt(text) ==
    LET t == Strip(text)
        digits == IF t # "" /\ Char(t, 1) \in {"-", "+"}
                  THEN SubSeq(t, 2, Len(t)) ELSE t
    IN  digits # "" /\ AllIn(digits, Digits)

int(text) ==
    LET t == Strip(text)
    IN  IF Char(t, 1) = "-" THEN 0 - Decimal(SubSeq(t, 2, Len(t)))
        ELSE IF Char(t, 1) = "+" THEN Decimal(SubSeq(t, 2, Len(t)))
        ELSE Decimal(t)

RECURSIVE Power10(_)
Power10(k) == IF k = 0 THEN 1 ELSE 10 * Power10(k - 1)

\* a float as num / 10^scale, with no zero at the end of the fraction
RECURSIVE Float(_, _)
Float(num, scale) ==
    IF scale > 0 /\ num % 10 = 0 THEN Float(num \div 10, scale - 1)
    ELSE [num |-> num, scale |-> scale]

\* float(text) for text of digits and dots: a ValueError unless it has one
\* dot at most and a digit
IsFloat(text) ==
    /\ AllIn(text, Digits \cup {"."})
    /\ \E i \in 1..Len(text) : Char(text, i) \in Digits
    /\ Cardinality({i \in 1..Len(text) : Char(text, i) = "."}) <= 1

float(text) ==
    LET whole == RunEnd(text, 1, Digits)
        fraction == SubSeq(text, whole + 2, Len(text))
    IN  Float(Decimal(SubSeq(text, 1, whole)) * Power10(Len(fraction))
                 + Decimal(fraction),
              Len(fraction))

\* min(max(lo, value), hi)
Clamp_NoCeiling(lo, value, hi) == IF value < lo THEN lo ELSE value

Clamp(lo, value, hi) ==
    LET raised == IF lo > value THEN lo ELSE value
    IN  IF raised < hi THEN raised ELSE hi

-----------------------------------------------------------------------------
(***************************************************************************)
(* External processes.  subprocess.run either returns the completed        *)
(* process, or raises: the command is not there (nothing is started), or   *)
(* the process, once started, outlives the timeout.  A timeout that is not *)
(* positive has run out as soon as the process is started.                 *)
(***************************************************************************)
Completed(returncode, stdout, stderr) ==
    [kind |-> "exit", returncode |-> returncode, stdout |-> stdout,
     stderr |-> stderr]

TimeoutExpired ==
    [kind |-> "timeout", returncode |-> 0 - 9, stdout |-> "", stderr |-> ""]

FileNotFound ==
    [kind |-> "oserror", returncode |-> 127, stdout |-> "", stderr |-> ""]

NoProcess == [cmd |-> <<>>, spawned |-> FALSE, timeout |-> <<>>]

Started(cmd, timeout, finish) ==
    [cmd |-> cmd, spawned |-> finish.kind # "oserror", timeout |-> <<timeout>>]

subprocess_run(cmd, timeout, finish) ==
    IF finish.kind = "oserror"
    THEN Raised("[Errno 2] No such file or directory: '" \o cmd[1] \o "'")
    ELSE IF timeout <= 0 \/ finish.kind = "timeout"
    THEN Raised("Command '[" \o ListRepr(cmd) \o "]' timed out after "
                   \o ToString(timeout) \o " seconds")
    ELSE Returned(finish)

\* if arguments: cmd.extend(arguments.split())
Extended(cmd, arguments) ==
    IF arguments # None /\ arguments # "" THEN cmd \o Words(arguments) ELSE cmd

NoneValue == [type |-> "NoneType", repr |-> "None"]

\* re.search(r'(\d+)% packet loss', output): group 1 of the leftmost match,
\* <<>> without a match
LossMatch(output) ==
    LET ends == {p \in 2..Len(output) :
                    /\ StartsWithAt(output, p, "% packet loss")
                    /\ Char(output, p - 1) \in Digits}
    IN  IF ends = {} THEN <<>>
        ELSE LET p == CHOOSE p \in ends : \A q \in ends : p <= q
                 start == CHOOSE i \in 1..(p - 1) :
                             /\ AllIn(SubSeq(output, i, p - 1), Digits)
                             /\ \A k \in 1..(i - 1) :
                                  ~AllIn(SubSeq(output, k, p - 1), Digits)
             IN  <<SubSeq(output, start, p - 1)>>

\* re.search(r'rtt min/avg/max/mdev = ([\d.]+)/([\d.]+)/([\d.]+)', output):
\* groups 1 to 3 of the leftmost match, <<>> without a match
RttGroupsAt(output, p) ==
    LET class == Digits \cup {"."}
        a == Len("rtt min/avg/max/mdev = ") + p
        aEnd == RunEnd(output, a, class)
        bEnd == RunEnd(output, aEnd + 2, class)
        cEnd == RunEnd(output, bEnd + 2, class)
    IN  IF /\ StartsWithAt(output, p, "rtt min/avg/max/mdev = ")
           /\ aEnd >= a
           /\ StartsWithAt(output, aEnd + 1, "/")
           /\ bEnd >= aEnd + 2
           /\ StartsWithAt(output, bEnd + 1, "/")
           /\ cEnd >= bEnd + 2
        THEN <<SubSeq(output, a, aEnd), SubSeq(output, aEnd + 2, bEnd),
               SubSeq(output, bEnd + 2, cEnd)>>
        ELSE <<>>

RttMatch(output) ==
    LET starts == {p \in 1..Len(output) : RttGroupsAt(output, p) # <<>>}
    IN  IF starts = {} THEN <<>>
        ELSE RttGroupsAt(output, CHOOSE p \in starts : \A q \in starts : p <= q)

\* int(count * (100 - packet_loss) / 100): the quotient cut towards zero
Received(count, loss) ==
    LET product == count * (100 - loss)
    IN  IF product >= 0 THEN product \div 100 ELSE 0 - ((0 - product) \div 100)

ping(target, count, timeout, arguments, finish) ==
    LET count_used == Clamp(1, count, 20)
        timeout_used == Clamp(1, timeout, 10)
        call == [tool |-> "ping", target |-> target,
                 input |-> [count |-> count, timeout |-> timeout,
                            arguments |-> arguments],
                 raised |-> FALSE, socket |-> FALSE]
        cmd == Extended(<<"ping", "-c", ToString(count_used),
                          "-W", ToString(timeout_used)>>, arguments)
                  \o <<target>>
        limit == count_used * timeout_used + 5
        process == subprocess_run(cmd, limit, finish)
        output == process.value.stdout
        loss_match == LossMatch(output)
        rtt_match == RttMatch(output)
        failed(text) == [success |-> FALSE, target |-> target, raw_output |-> text,
                         packets_sent |-> count_used, packets_received |-> 0,
                         packet_loss |-> Float(100, 0)]
    IN  IF ~HostPattern(target)
        THEN call @@ NoProcess @@
             [finish |-> FileNotFound,
              result |-> [success |-> FALSE, target |-> target,
                          raw_output |-> "Invalid target format",
                          packets_sent |-> 0, packets_received |-> 0,
                          packet_loss |-> Float(100, 0)]]
        ELSE call @@ Started(cmd, limit, finish) @@
             [finish |-> finish,
              result |->
                IF process.raised THEN failed(process.value.repr)
                ELSE IF rtt_match # <<>> /\ \E i \in 1..3 : ~IsFloat(rtt_match[i])
                THEN failed("could not convert string to float: '"
                               \o rtt_match[CHOOSE i \in 1..3 :
                                     /\ ~IsFloat(rtt_match[i])
                                     /\ \A k \in 1..(i - 1) : IsFloat(rtt_match[k])]
                               \o "'")
                ELSE [success |-> process.value.returncode = 0,
                      target |-> target,
                      packets_sent |-> count_used,
                      packets_received |->
                         IF loss_match = <<>> THEN 0
                         ELSE Received(count_used, Decimal(loss_match[1])),
                      packet_loss |->
                         IF loss_match = <<>> THEN Float(100, 0)
                         ELSE float(loss_match[1]),
                      rtt_min |-> IF rtt_match = <<>> THEN NoneValue
                                  ELSE float(rtt_match[1]),
                      rtt_avg |-> IF rtt_match = <<>> THEN NoneValue
                                  ELSE float(rtt_match[2]),
                      rtt_max |-> IF rtt_match = <<>> THEN NoneValue
                                  ELSE float(rtt_match[3]),
                      raw_output |-> output]]

\* what the ping program prints: the statistics line with the loss
\* percentage and the rtt line, each of them there or not
PingOutput(loss, rtt) ==
    "--- ping statistics ---\n"
    \o (IF loss = None THEN ""
        ELSE "3 packets transmitted, 2 received, " \o loss
                \o "% packet loss, time 2003ms\n")
    \o (IF rtt = <<>> THEN ""
        ELSE "rtt min/avg/max/mdev = " \o rtt[1] \o "/" \o rtt[2] \o "/"
                \o rtt[3] \o "/" \o rtt[4] \o " ms\n")

Losses == {None, "0", "20", "100", "33.3333"}

Rtts == {<<>>, <<"10.0", "12.0", "15.0", "1.5">>,
         <<"0.045", "0.051", "0.060", "0.004">>,
         <<"1.2.3", "4", "5", "6">>}

PingOutcomes ==
    {TimeoutExpired, FileNotFound}
    \cup {Completed(returncode, PingOutput(loss, rtt), "") :
             returncode \in {0, 1}, loss \in Losses, rtt \in Rtts}

\* the targets, tunables and extra arguments the callers pass
Targets == {"10.0.0.1", "example.com", "10.0.0.1\n", "; rm -rf /", "10.0.0.0/24"}

Tunables == {0 - 1, 0, 4, 1000, 70000}

Arguments == {None, "-s 1000"}

Ping(target, count, timeout, arguments, finish) ==
    /\ tool_run = NoRun
    /\ tool_run' = ping(target, count, timeout, arguments, finish)
    /\ UNCHANGED <<loop_vars, session_vars>>

-----------------------------------------------------------------------------
\* the end of the longest run of characters outside the class that starts
\* at i (i - 1 when text[i] is in the class)
RunEndNot(text, i, class) ==
    IF \E j \in i..Len(text) : Char(text, j) \in class
    THEN (CHOOSE j \in i..Len(text) :
             /\ Char(text, j) \in class
             /\ \A k \in i..(j - 1) : Char(text, k) \notin class) - 1
    ELSE Len(text)

\* re.match(r'\s*(\d+)\s+(\S+)\s+\(([\d.]+)\)(.*)', line): groups 1 to 4,
\* <<>> without a match
HopMatch(line) ==
    LET number == RunEnd(line, 1, Whitespace) + 1
        numberEnd == RunEnd(line, number, Digits)
        name == RunEnd(line, numberEnd + 1, Whitespace) + 1
        nameEnd == RunEndNot(line, name, Whitespace)
        paren == RunEnd(line, nameEnd + 1, Whitespace) + 1
        addressEnd == RunEnd(line, paren + 1, Digits \cup {"."})
    IN  IF /\ numberEnd >= number
           /\ name > numberEnd + 1
           /\ nameEnd >= name
           /\ paren > nameEnd + 1
           /\ StartsWithAt(line, paren, "(")
           /\ addressEnd >= paren + 1
           /\ StartsWithAt(line, addressEnd + 1, ")")
        THEN <<SubSeq(line, number, numberEnd), SubSeq(line, name, nameEnd),
               SubSeq(line, paren + 1, addressEnd),
               SubSeq(line, addressEnd + 2, Len(line))>>
        ELSE <<>>

\* re.findall(r'([\d\.]+)\s+ms', text[i:])
RECURSIVE MsTimes(_, _)
MsTimes(text, i) ==
    IF i > Len(text) THEN <<>>
    ELSE LET end == RunEnd(text, i, Digits \cup {"."})
             space == RunEnd(text, end + 1, Whitespace)
         IN  IF end >= i /\ space >= end + 1 /\ StartsWithAt(text, space + 1, "ms")
             THEN <<SubSeq(text, i, end)>> \o MsTimes(text, space + 3)
             ELSE MsTimes(text, i + 1)

\* the largest scale of some floats, and their sum at that scale
RECURSIVE MaxScale(_)
MaxScale(values) ==
    IF values = <<>> THEN 0
    ELSE LET rest == MaxScale(Tail(values))
         IN  IF values[1].scale > rest THEN values[1].scale ELSE rest

RECURSIVE SumAt(_, _)
SumAt(values, scale) ==
    IF values = <<>> THEN 0
    ELSE values[1].num * Power10(scale - values[1].scale)
            + SumAt(Tail(values), scale)

\* f"{n / d:.2f}" for n >= 0, d > 0: the nearest value of two decimals (the
\* even one where two are equally near)
TwoDecimals(n, d) ==
    LET q == (100 * n) \div d
        r == (100 * n) % d
        cents == IF 2 * r > d \/ (2 * r = d /\ q % 2 = 1) THEN q + 1 ELSE q
    IN  ToString(cents \div 100) \o "."
           \o ToString((cents % 100) \div 10) \o ToString(cents % 10)

\* rtt_str of a hop line
RttText_First(rtts) == IF rtts = <<>> THEN "*" ELSE rtts[1] \o " ms"

RttText(rtts) ==
    IF rtts = <<>> THEN "*"
    ELSE IF \E i \in 1..Len(rtts) : ~IsFloat(rtts[i]) THEN rtts[1] \o " ms"
    ELSE LET values == [i \in 1..Len(rtts) |-> float(rtts[i])]
             scale == MaxScale(values)
         IN  TwoDecimals(SumAt(values, scale), Len(rtts) * Power10(scale)) \o " ms"

\* the hops of the lines that match, in the order of the lines
RECURSIVE Hops(_)
Hops(lines) ==
    IF lines = <<>> THEN <<>>
    ELSE LET hop_match == HopMatch(lines[1])
         IN  (IF hop_match = <<>> THEN <<>>
              ELSE <<[hop |-> int(hop_match[1]), hostname |-> hop_match[2],
                      ip |-> hop_match[3],
                      rtt |-> RttText(MsTimes(hop_match[4], 1))]>>)
                \o Hops(Tail(lines))

traceroute(target, max_hops, timeout, arguments, finish) ==
    LET max_hops_used == Clamp(1, max_hops, 64)
        call == [tool |-> "traceroute", target |-> target,
                 input |-> [max_hops |-> max_hops, timeout |-> timeout,
                            arguments |-> arguments],
                 raised |-> FALSE, socket |-> FALSE]
        cmd == Extended(<<"traceroute", "-m", ToString(max_hops_used),
                          "-w", ToString(timeout)>>, arguments)
                  \o <<target>>
        limit == max_hops_used * timeout
        process == subprocess_run(cmd, limit, finish)
    IN  IF ~HostPattern(target)
        THEN call @@ NoProcess @@
             [finish |-> FileNotFound,
              result |-> [success |-> FALSE, target |-> target, hops |-> <<>>,
                          raw_output |-> "Invalid target"]]
        ELSE call @@ Started(cmd, limit, finish) @@
             [finish |-> finish,
              result |->
                IF process.raised
                THEN [success |-> FALSE, target |-> target, hops |-> <<>>,
                      raw_output |-> process.value.repr]
                ELSE [success |-> process.value.returncode = 0,
                      target |-> target,
                      hops |-> Hops(Split(process.value.stdout, "\n")),
                      raw_output |-> process.value.stdout]]

\* scan_args.get(scan_type, scan_args["basic"])
scan_args(scan_type) ==
    CASE scan_type = "quick"   -> <<"-sn">>
      [] scan_type = "intense" -> <<"-sS", "-sV", "-T4">>
      [] scan_type = "ping"    -> <<"-sn", "-PE">>
      [] scan_type = "version" -> <<"-sV">>
      [] scan_type = "os"      -> <<"-O">>
      [] OTHER                 -> <<"-sT", "-T3">>

NmapTimeout == 300

\* installed: shutil.which("nmap") finds the program
\* the match of a line with a port in any state
PortMatch_AnyState(line) ==
    LET numberEnd == RunEnd(line, 1, Digits)
        protocolEnd == RunEnd(line, numberEnd + 2, WordChars)
        state == RunEnd(line, protocolEnd + 1, Whitespace) + 1
        stateEnd == RunEndNot(line, state, Whitespace)
        service == RunEnd(line, stateEnd + 1, Whitespace) + 1
        serviceEnd == RunEndNot(line, service, Whitespace)
    IN  IF /\ numberEnd >= 1
           /\ StartsWithAt(line, numberEnd + 1, "/")
           /\ protocolEnd >= numberEnd + 2
           /\ state > protocolEnd + 1
           /\ stateEnd >= state
           /\ service > stateEnd + 1
           /\ serviceEnd >= service
        THEN <<SubSeq(line, 1, numberEnd),
               SubSeq(line, numberEnd + 2, protocolEnd),
               SubSeq(line, service, serviceEnd)>>
        ELSE <<>>

\* re.match(r'^(\d+)/(\w+)\s+open\s+(\S+)', line): groups 1 to 3, <<>>
\* without a match
PortMatch(line) ==
    LET numberEnd == RunEnd(line, 1, Digits)
        protocolEnd == RunEnd(line, numberEnd + 2, WordChars)
        state == RunEnd(line, protocolEnd + 1, Whitespace) + 1
        service == RunEnd(line, state + 4, Whitespace) + 1
        serviceEnd == RunEndNot(line, service, Whitespace)
    IN  IF /\ numberEnd >= 1
           /\ StartsWithAt(line, numberEnd + 1, "/")
           /\ protocolEnd >= numberEnd + 2
           /\ state > protocolEnd + 1
           /\ StartsWithAt(line, state, "open")
           /\ service > state + 4
           /\ serviceEnd >= service
        THEN <<SubSeq(line, 1, numberEnd),
               SubSeq(line, numberEnd + 2, protocolEnd),
               SubSeq(line, service, serviceEnd)>>
        ELSE <<>>

\* the open ports of the lines that match, in the order of the lines
RECURSIVE OpenPorts(_)
OpenPorts(lines) ==
    IF lines = <<>> THEN <<>>
    ELSE LET port_match == PortMatch(lines[1])
         IN  (IF port_match = <<>> THEN <<>>
              ELSE <<[port |-> int(port_match[1]), protocol |-> port_match[2],
                      service |-> port_match[3]]>>)
                \o OpenPorts(Tail(lines))

nmap_scan_direct(target, scan_type, ports, arguments, installed, finish) ==
    LET call == [tool |-> "nmap_scan_direct", target |-> target,
                 input |-> [scan_type |-> scan_type, ports |-> ports,
                            arguments |-> arguments],
                 raised |-> FALSE, socket |-> FALSE]
        cmd == Extended(<<"nmap">> \o scan_args(scan_type)
                           \o (IF ports # None /\ ports # "" /\ PortsPattern(ports)
                               THEN <<"-p", ports>> ELSE <<>>),
                        arguments)
                  \o <<target>>
        process == subprocess_run(cmd, NmapTimeout, finish)
        failed(text) == [success |-> FALSE, target |-> target,
                         scan_type |-> scan_type, open_ports |-> <<>>,
                         raw_output |-> text]
    IN  IF ~installed
        THEN call @@ NoProcess @@
             [finish |-> FileNotFound, result |-> failed("NMAP not installed")]
        ELSE IF ~HostOrNetPattern(target)
        THEN call @@ NoProcess @@
             [finish |-> FileNotFound, result |-> failed("Invalid target format")]
        ELSE call @@ Started(cmd, NmapTimeout, finish) @@
             [finish |-> finish,
              result |->
                IF process.raised THEN failed(process.value.repr)
                ELSE [success |-> process.value.returncode = 0,
                      target |-> target, scan_type |-> scan_type,
                      open_ports |-> OpenPorts(Split(process.value.stdout, "\n")),
                      raw_output |-> process.value.stdout]]

LowerCase == "abcdefghijklmnopqrstuvwxyz"

UpperCase == "ABCDEFGHIJKLMNOPQRSTUVWXYZ"

\* text.upper()
RECURSIVE upper(_)
upper(text) ==
    IF text = "" THEN ""
    ELSE LET c == Char(text, 1)
         IN  (IF \E i \in 1..Len(LowerCase) : Char(LowerCase, i) = c
              THEN Char(UpperCase, CHOOSE i \in 1..Len(LowerCase) :
                                      Char(LowerCase, i) = c)
              ELSE c) \o upper(SubSeq(text, 2, Len(text)))

\* the options of hping3_probe for the letters of flags that flag_map has
RECURSIVE FlagOptions(_)
FlagOptions(flags) ==
    IF flags = "" THEN <<>>
    ELSE (IF Char(flags, 1) \in {"S", "A", "F", "R", "U", "P"}
          THEN <<"-" \o Char(flags, 1)>> ELSE <<>>)
            \o FlagOptions(SubSeq(flags, 2, Len(flags)))

\* mode_flags.get(mode, "-S")
mode_flags(mode) ==
    CASE mode = "ack"   -> "-A"
      [] mode = "fin"   -> "-F"
      [] mode = "udp"   -> "-2"
      [] mode = "icmp"  -> "-1"
      [] mode = "rawip" -> "-0"
      [] OTHER          -> "-S"

\* installed: shutil.which("hping3") finds the program
hping3_probe(target, mode, port, count, flags, arguments, installed, finish) ==
    LET port_used == Clamp(1, port, 65535)
        count_used == Clamp(1, count, 100)
        call == [tool |-> "hping3_probe", target |-> target,
                 input |-> [mode |-> mode, port |-> port, count |-> count,
                            flags |-> flags, arguments |-> arguments],
                 raised |-> FALSE, socket |-> FALSE]
        cmd == Extended(<<"hping3", "-c", ToString(count_used)>>
                           \o (IF flags # None /\ flags # "" /\ mode = "syn"
                               THEN FlagOptions(upper(flags))
                               ELSE <<mode_flags(mode)>>)
                           \o (IF mode \notin {"icmp", "rawip"}
                               THEN <<"-p", ToString(port_used)>> ELSE <<>>),
                        arguments)
                  \o <<target>>
        limit == count_used * 5 + 10
        process == subprocess_run(cmd, limit, finish)
        output == process.value.stdout \o process.value.stderr
    IN  IF ~installed
        THEN call @@ NoProcess @@
             [finish |-> FileNotFound,
              result |-> "hping3 is not installed. Please install with: sudo apt install hping3"]
        ELSE IF ~HostPattern(target)
        THEN call @@ NoProcess @@
             [finish |-> FileNotFound, result |-> "Invalid target format"]
        ELSE call @@ Started(cmd, limit, finish) @@
             [finish |-> finish,
              result |->
                IF process.raised
                THEN IF finish.kind = "oserror"
                     THEN "hping3 error: " \o process.value.repr
                     ELSE "hping3 timed out"
                ELSE IF Strip(output) # "" THEN output
                ELSE "No output from hping3"]

\* what the programs print
TracerouteOutput ==
    "traceroute to 10.0.0.1 (10.0.0.1), 30 hops max, 60 byte packets\n"
    \o " 1  gw (192.168.1.1)  1.234 ms  2.345 ms\n"
    \o " 2  * * *\n"

NmapOutput ==
    "Starting Nmap\nPORT   STATE SERVICE\n22/tcp open  ssh\n80/tcp closed http\n"

HpingOutput == "len=46 ip=10.0.0.1 ttl=64 sport=80 flags=SA seq=0 rtt=3.9 ms\n"

TracerouteOutcomes ==
    {TimeoutExpired, FileNotFound, Completed(0, TracerouteOutput, ""),
     Completed(1, "", "")}

NmapOutcomes ==
    {TimeoutExpired, FileNotFound, Completed(0, NmapOutput, ""),
     Completed(1, "", "")}

HpingOutcomes ==
    {TimeoutExpired, FileNotFound, Completed(0, HpingOutput, ""),
     Completed(1, "", " \n")}

\* the lines a program can print, at most MaxLines of them: each with the
\* text it is made of and, for the lines of the tool's own format, the parts
\* that were printed
MaxLines == 2

HopLine(n, host, address, times, mean) ==
    [form |-> "hop", n |-> n, host |-> host, address |-> address,
     times |-> times, mean |-> mean]

OtherLine(text) ==
    [form |-> "other", n |-> 0, host |-> "", address |-> "", times |-> <<>>,
     mean |-> text]

RECURSIVE TimesText(_)
TimesText(times) ==
    IF times = <<>> THEN ""
    ELSE "  " \o times[1] \o " ms" \o TimesText(Tail(times))

StateLine(port, protocol, state, service) ==
    [form |-> "port", port |-> port, protocol |-> protocol, state |-> state,
     service |-> service]

LineText(line) ==
    IF line.form = "port"
    THEN ToString(line.port) \o "/" \o line.protocol \o "   " \o line.state
            \o "  " \o line.service
    ELSE IF line.form = "hop"
    THEN " " \o ToString(line.n) \o "  " \o line.host \o " (" \o line.address
            \o ")" \o (IF line.times = <<>> THEN "  * * *" ELSE TimesText(line.times))
    ELSE line.mean

RECURSIVE OutputText(_)
OutputText(lines) ==
    IF lines = <<>> THEN ""
    ELSE LineText(lines[1]) \o "\n" \o OutputText(Tail(lines))

RECURSIVE LineSeqs(_, _)
LineSeqs(lines, n) ==
    IF n = 0 THEN {<<>>}
    ELSE LineSeqs(lines, n - 1)
            \cup {Append(seq, line) : seq \in LineSeqs(lines, n - 1), line \in lines}

Printed(returncode, lines) ==
    Completed(returncode, OutputText(lines), "") @@ [lines |-> lines]

TracerouteLines ==
    {HopLine(3, "host", "10.0.0.1", <<"4.500", "5.500">>, "5.00 ms"),
     HopLine(12, "edge.example.net", "172.16.0.1", <<"1.234", "2.345", "3.459">>,
             "2.35 ms"),
     HopLine(4, "far", "10.9.9.9", <<>>, "*"),
     OtherLine("traceroute to 10.0.0.1 (10.0.0.1), 30 hops max, 60 byte packets")}

TracerouteRuns ==
    TracerouteOutcomes
       \cup {Printed(returncode, lines) :
                returncode \in {0, 1}, lines \in LineSeqs(TracerouteLines, MaxLines)}

NmapLines ==
    {StateLine(22, "tcp", "open", "ssh"),
     StateLine(161, "udp", "open|filtered", "snmp"),
     OtherLine("PORT   STATE SERVICE")}

NmapRuns ==
    NmapOutcomes
       \cup {Printed(returncode, lines) :
                returncode \in {0, 1}, lines \in LineSeqs(NmapLines, MaxLines)}

ScanTypes == {"quick", "basic", "bogus"}

\* ports of nmap_scan_direct
PortSpecs == {None, "22,80,443", "1-65535", "22; id"}

Modes == {"syn", "icmp", "bogus"}

Flags == {None, "sa", "sx"}

Traceroute(target, max_hops, timeout, arguments, finish) ==
    /\ tool_run = NoRun
    /\ tool_run' = traceroute(target, max_hops, timeout, arguments, finish)
    /\ UNCHANGED <<loop_vars, session_vars>>

NmapScanDirect(target, scan_type, ports, arguments, installed, finish) ==
    /\ tool_run = NoRun
    /\ tool_run' = nmap_scan_direct(target, scan_type, ports, arguments,
                                    installed, finish)
    /\ UNCHANGED <<loop_vars, session_vars>>

Hping3Probe(target, mode, port, count, flags, arguments, installed, finish) ==
    /\ tool_run = NoRun
    /\ tool_run' = hping3_probe(target, mode, port, count, flags, arguments,
                                installed, finish)
    /\ UNCHANGED <<loop_vars, session_vars>>

-----------------------------------------------------------------------------
\* sep.join(lines)
RECURSIVE Join(_, _)
Join(lines, sep) ==
    IF lines = <<>> THEN ""
    ELSE IF Len(lines) = 1 THEN lines[1]
    ELSE Join(SubSeq(lines, 1, Len(lines) - 1), sep) \o sep \o lines[Len(lines)]

\* text * n
RECURSIVE Repeat(_, _)
Repeat(text, n) == IF n <= 0 THEN "" ELSE text \o Repeat(text, n - 1)

\* format(text, str(width)): spaces added on the right up to the width
Padded(text, width) == text \o Repeat(" ", width - Len(text))

QuickScanLimit == 50

\* what a probed port answers to the SYN of quick_port_scan
PortReplies == {"synack", "rst", "other", "silent", "error"}

\* the line quick_port_scan appends for a port (none for an answer that is
\* neither SYN/ACK nor RST/ACK)
PortLine(port, reply) ==
    CASE reply = "synack" -> <<"Port " \o ToString(port) \o ": OPEN">>
      [] reply = "rst"    -> <<"Port " \o ToString(port) \o ": CLOSED">>
      [] reply = "silent" -> <<"Port " \o ToString(port) \o ": FILTERED (no response)">>
      [] reply = "error"  -> <<"Port " \o ToString(port)
                                \o ": ERROR ([Errno 1] Operation not permitted)">>
      [] OTHER            -> <<>>

RECURSIVE PortLines(_, _)
PortLines(port_list, reply) ==
    IF port_list = <<>> THEN <<>>
    ELSE PortLines(SubSeq(port_list, 1, Len(port_list) - 1), reply)
            \o PortLine(port_list[Len(port_list)], reply)

quick_port_scan(target, ports, reply) ==
    LET call == [tool |-> "quick_port_scan", target |-> target,
                 input |-> [ports |-> ports], reply |-> reply,
                 raised |-> FALSE] @@ NoProcess
        items == Split(ports, ",")
        numbers == [i \in 1..Len(items) |-> int(items[i])]
        valid == SelectSeq(numbers, LAMBDA p : 1 <= p /\ p <= 65535)
        port_list == SubSeq(valid, 1, IF Len(valid) < QuickScanLimit
                                      THEN Len(valid) ELSE QuickScanLimit)
    IN  IF ~AddressPattern(target)
        THEN call @@ [socket |-> FALSE, probed |-> <<>>,
                      result |-> "Invalid IP address format"]
        ELSE IF \E i \in 1..Len(items) : ~IsInt(items[i])
        THEN call @@ [socket |-> FALSE, probed |-> <<>>,
                      result |-> "Invalid ports format. Use comma-separated integers."]
        ELSE call @@ [socket |-> port_list # <<>>, probed |-> port_list,
                      result |-> "Quick Port Scan Results:\n"
                                    \o Join(PortLines(port_list, reply), "\n")]

\* the hosts that answer an ARP request
ArpAnswers == <<[psrc |-> "10.0.0.1", hwsrc |-> "aa:bb:cc:dd:ee:ff"]>>

arp_scan(network, reply) ==
    LET call == [tool |-> "arp_scan", target |-> network, reply |-> reply,
                 raised |-> FALSE] @@ NoProcess
        rule == Repeat("-", 40)
    IN  IF ~CidrPattern(network)
        THEN call @@ [socket |-> FALSE,
                      result |-> "Invalid network format. Use CIDR notation like '192.168.1.0/24'"]
        ELSE call @@
             [socket |-> TRUE,
              result |->
                IF reply = "error"
                THEN "ARP scan error: [Errno 1] Operation not permitted"
                ELSE IF reply = "silent" THEN "No hosts discovered"
                ELSE Join(<<"ARP Scan Results:", rule>>
                            \o [i \in 1..Len(ArpAnswers) |->
                                   "IP: " \o Padded(ArpAnswers[i].psrc, 15)
                                      \o " MAC: " \o ArpAnswers[i].hwsrc]
                            \o <<rule, "Total hosts found: "
                                          \o ToString(Len(ArpAnswers))>>,
                          "\n")]

\* the hops that answer scapy's traceroute, as (snd.ttl, rcv.src)
HopAnswers == <<[ttl |-> 1, src |-> "192.168.1.1"], [ttl |-> 2, src |-> "10.0.0.1"]>>

traceroute_host(target, max_hops, use_scapy, arguments, reply, finish) ==
    LET max_hops_used == Clamp(1, max_hops, 64)
        call == [tool |-> "traceroute_host", target |-> target,
                 input |-> [max_hops |-> max_hops, use_scapy |-> use_scapy,
                            arguments |-> arguments],
                 raised |-> FALSE]
        direct == traceroute(target, max_hops_used, 3, arguments, finish)
    IN  IF ~HostPattern(target)
        THEN call @@ NoProcess @@
             [socket |-> FALSE, reply |-> "silent", finish |-> FileNotFound,
              result |-> "Invalid target format"]
        ELSE IF use_scapy
        THEN call @@ NoProcess @@
             [socket |-> TRUE, reply |-> reply, finish |-> FileNotFound,
              result |->
                IF reply = "error"
                THEN "Scapy traceroute error: [Errno 1] Operation not permitted"
                ELSE IF reply = "silent" THEN "No response from any hop"
                ELSE Join(<<"Scapy Traceroute Results:">>
                            \o [i \in 1..Len(HopAnswers) |->
                                   "  " \o ToString(HopAnswers[i].ttl) \o ": "
                                      \o HopAnswers[i].src],
                          "\n")]
        ELSE call @@
             [socket |-> FALSE, reply |-> "silent", finish |-> finish,
              cmd |-> direct.cmd, spawned |-> direct.spawned,
              timeout |-> direct.timeout,
              result |-> IF direct.result.success THEN direct.result.raw_output
                         ELSE "Traceroute failed: " \o direct.result.raw_output]

QuickTargets == {"10.0.0.1", "10.0.0.1\n", "; rm -rf /", "example.com"}

RECURSIVE PortList(_)
PortList(n) == IF n = 1 THEN "1" ELSE PortList(n - 1) \o "," \o ToString(n)

\* ports of quick_port_scan
PortTexts == {"22,80,443,8080,8443", "0,70000, 80", "22,x", "",
              PortList(QuickScanLimit + 1)}

Networks == {"10.0.0.0/24", "10.0.0.0/24\n", "; rm -rf /", "10.0.0.1"}

QuickPortScan(target, ports, reply) ==
    /\ tool_run = NoRun
    /\ tool_run' = quick_port_scan(target, ports, reply)
    /\ UNCHANGED <<loop_vars, session_vars>>

ArpScan(network, reply) ==
    /\ tool_run = NoRun
    /\ tool_run' = arp_scan(network, reply)
    /\ UNCHANGED <<loop_vars, session_vars>>

TracerouteHost(target, max_hops, use_scapy, arguments, reply, finish) ==
    /\ tool_run = NoRun
    /\ tool_run' = traceroute_host(target, max_hops, use_scapy, arguments,
                                   reply, finish)
    /\ UNCHANGED <<loop_vars, session_vars>>

-----------------------------------------------------------------------------
\* the record types dns_lookup_tool asks for
valid_types == {"A", "AAAA", "MX", "NS", "TXT", "SOA", "CNAME", "PTR", "SRV",
                "CAA", "ANY"}

\* what resolver.resolve does with a query
DnsAnswers == {"records", "NXDOMAIN", "NoAnswer", "NoNameservers", "error"}

\* the rdata of an answer
Rdata == [text |-> "93.184.216.34",
          preference |-> "10", exchange |-> "mail.example.com.",
          mname |-> "ns.example.com.", rname |-> "admin.example.com.",
          serial |-> "2024010101", refresh |-> "7200", retry |-> "3600",
          expire |-> "1209600", minimum |-> "3600",
          priority |-> "10", weight |-> "5", port |-> "5060",
          target |-> "sip.example.com."]

\* str(e) of the exception resolver.resolve raises
DnsError(target, answer) ==
    CASE answer = "NXDOMAIN" -> "The DNS query name does not exist: " \o target \o "."
      [] answer = "NoAnswer" -> "The DNS response does not contain an answer to the question"
      [] answer = "NoNameservers" -> "All nameservers failed to answer the query"
      [] OTHER -> "The resolution lifetime expired"

\* the lines dns_lookup_tool appends for one record type
RecordLines(target, record_type, answer) ==
    <<"\n[" \o record_type \o " Records]">> \o
    (CASE answer = "NXDOMAIN" -> <<"  Domain does not exist">>
       [] answer = "NoAnswer" -> <<"  No " \o record_type \o " records found">>
       [] answer = "NoNameservers" -> <<"  No nameservers available">>
       [] answer = "error" -> <<"  Error: " \o DnsError(target, answer)>>
       [] OTHER ->
            CASE record_type = "MX" ->
                   <<"  Priority: " \o Rdata.preference \o ", Mail Server: "
                        \o Rdata.exchange>>
              [] record_type = "SOA" ->
                   <<"  Primary NS: " \o Rdata.mname,
                     "  Admin: " \o Rdata.rname,
                     "  Serial: " \o Rdata.serial,
                     "  Refresh: " \o Rdata.refresh \o "s, Retry: "
                        \o Rdata.retry \o "s",
                     "  Expire: " \o Rdata.expire \o "s, Minimum TTL: "
                        \o Rdata.minimum \o "s">>
              [] record_type = "SRV" ->
                   <<"  Priority: " \o Rdata.priority \o ", Weight: "
                        \o Rdata.weight,
                     "  Port: " \o Rdata.port \o ", Target: " \o Rdata.target>>
              [] OTHER -> <<"  " \o Rdata.text>>)

RECURSIVE AllRecordLines(_, _, _)
AllRecordLines(target, requested_types, answer) ==
    IF requested_types = <<>> THEN <<>>
    ELSE RecordLines(target, requested_types[1], answer)
            \o AllRecordLines(target, Tail(requested_types), answer)

\* installed: dnspython can be imported
dns_lookup_tool(target, record_types, nameserver, installed, answer) ==
    LET call == [tool |-> "dns_lookup_tool", target |-> target,
                 input |-> [record_types |-> record_types,
                            nameserver |-> nameserver],
                 raised |-> FALSE] @@ NoProcess
        items == Split(record_types, ",")
        named == SelectSeq([i \in 1..Len(items) |-> upper(Strip(items[i]))],
                           LAMBDA t : t \in valid_types)
        requested_types == IF named = <<>> THEN <<"A">> ELSE named
    IN  IF ~installed
        THEN call @@
             [socket |-> FALSE, answer |-> "error",
              result |-> "dnspython is not installed. Please install with: pip install dnspython"]
        ELSE call @@
             [socket |-> TRUE, answer |-> answer,
              result |-> Join(<<"DNS Lookup Results for: " \o target,
                                Repeat("=", 50)>>
                                \o AllRecordLines(target, requested_types, answer),
                              "\n")]

\* dns_lookup without its except clause: the import error and the
\* resolver's exceptions reach the caller
dns_lookup_Uncaught(target, record_type, installed, answer) ==
    [tool |-> "dns_lookup", target |-> target,
     input |-> [record_type |-> record_type],
     raised |-> ~installed \/ answer # "records",
     socket |-> installed, answer |-> IF installed THEN answer ELSE "error",
     result |-> [success |-> TRUE, target |-> target,
                 record_type |-> record_type, records |-> <<Rdata.text>>,
                 raw_output |-> Rdata.text]] @@ NoProcess

dns_lookup(target, record_type, installed, answer) ==
    LET call == [tool |-> "dns_lookup", target |-> target,
                 input |-> [record_type |-> record_type],
                 raised |-> FALSE] @@ NoProcess
        failed(text) == [success |-> FALSE, target |-> target,
                         record_type |-> record_type, records |-> <<>>,
                         raw_output |-> text]
    IN  IF ~installed
        THEN call @@ [socket |-> FALSE, answer |-> "error",
                      result |-> failed("No module named 'dns'")]
        ELSE call @@
             [socket |-> TRUE, answer |-> answer,
              result |->
                IF answer # "records" THEN failed(DnsError(target, answer))
                ELSE [success |-> TRUE, target |-> target,
                      record_type |-> record_type,
                      records |-> <<Rdata.text>>,
                      raw_output |-> Join(<<Rdata.text>>, "\n")]]

RecordTypes == {"A", "a, mx", "SOA,SRV", "bogus"}

Nameservers == {None, "8.8.8.8"}

DnsLookupTool(target, record_types, nameserver, installed, answer) ==
    /\ tool_run = NoRun
    /\ tool_run' = dns_lookup_tool(target, record_types, nameserver, installed,
                                   answer)
    /\ UNCHANGED <<loop_vars, session_vars>>

DnsLookup(target, record_type, installed, answer) ==
    /\ tool_run = NoRun
    /\ tool_run' = dns_lookup(target, record_type, installed, answer)
    /\ UNCHANGED <<loop_vars, session_vars>>

-----------------------------------------------------------------------------
\* one direct call of a tool, on inputs of the callers' choice; the guard
\* stands before the inputs, so that none are drawn once the call is made
ToolsNext ==
    \/ /\ tool_run = NoRun
       /\ \E pkt_desc \in PacketDescriptions, is_ethernet \in BOOLEAN,
             want_response \in BOOLEAN, reply \in Replies :
             SendPacket(pkt_desc, is_ethernet, want_response, reply)
    \/ /\ tool_run = NoRun
       /\ \E pkt_desc \in PacketDescriptions : CraftPacketJson(pkt_desc)
    \/ /\ tool_run = NoRun
       /\ \E target \in Targets, count \in Tunables, timeout \in Tunables,
             arguments \in Arguments, finish \in PingOutcomes :
             Ping(target, count, timeout, arguments, finish)
    \/ /\ tool_run = NoRun
       /\ \E target \in Targets, max_hops \in Tunables, timeout \in Tunables,
             arguments \in Arguments, finish \in TracerouteRuns :
             Traceroute(target, max_hops, timeout, arguments, finish)
    \/ /\ tool_run = NoRun
       /\ \E target \in Targets, scan_type \in ScanTypes, ports \in PortSpecs,
             arguments \in Arguments, installed \in BOOLEAN,
             finish \in NmapRuns :
             NmapScanDirect(target, scan_type, ports, arguments, installed, finish)
    \/ /\ tool_run = NoRun
       /\ \E target \in Targets, mode \in Modes, port \in Tunables,
             count \in Tunables, flags \in Flags, arguments \in Arguments,
             installed \in BOOLEAN, finish \in HpingOutcomes :
             Hping3Probe(target, mode, port, count, flags, arguments, installed,
                         finish)
    \/ /\ tool_run = NoRun
       /\ \E target \in QuickTargets, ports \in PortTexts, reply \in PortReplies :
             QuickPortScan(target, ports, reply)
    \/ /\ tool_run = NoRun
       /\ \E network \in Networks, reply \in Replies : ArpScan(network, reply)
    \/ /\ tool_run = NoRun
       /\ \E target \in Targets, max_hops \in Tunables, use_scapy \in BOOLEAN,
             arguments \in Arguments, reply \in Replies,
             finish \in TracerouteOutcomes :
             TracerouteHost(target, max_hops, use_scapy, arguments, reply, finish)
    \/ /\ tool_run = NoRun
       /\ \E target \in Targets, record_types \in RecordTypes,
             nameserver \in Nameservers, installed \in BOOLEAN,
             answer \in DnsAnswers :
             DnsLookupTool(target, record_types, nameserver, installed, answer)
    \/ /\ tool_run = NoRun
       /\ \E target \in Targets, record_type \in {"A", "MX"},
             installed \in BOOLEAN, answer \in DnsAnswers :
             DnsLookup(target, record_type, installed, answer)

ToolsSpec == Init /\ [][ToolsNext]_vars

-----------------------------------------------------------------------------
(* The calls of llm_crafter on the threads, one step of one thread at a    *)
(* time.                                                                   *)

\* getattr(_session_context, 'context', None) on thread t
get_session_context(t) == _session_context[t]

\* a module-level attribute that is not thread-local
set_session_context_Global(t, reference) == [u \in Threads |-> reference]

\* _session_context.context = context on thread t
set_session_context(t, reference) ==
    [_session_context EXCEPT ![t] = reference]

\* lines 218-223: the context is created and stored
Enter(t, user, provider_name, session_id) ==
    /\ crafter[t].pc = "idle"
    /\ Len(contexts) < MaxRequests
    /\ contexts' = Append(contexts,
                          [SessionContext(user, provider_name)
                             EXCEPT !.session_id = session_id])
    /\ _session_context' = set_session_context(t, Len(contexts) + 1)
    /\ crafter' = [crafter EXCEPT ![t] =
                      [pc |-> "resolving", context |-> Len(contexts) + 1,
                       provider_name |-> provider_name,
                       finished |-> "none", seen |-> <<>>]]

\* lines 225-231: the executor is built and the names are filled in, or
\* lines 244-252 when it cannot be built
Resolve(t, available, chat_ok) ==
    /\ crafter[t].pc = "resolving"
    /\ LET built == AgentExecutorInit(1, crafter[t].provider_name, available, chat_ok)
           reference == crafter[t].context
       IN  IF built.raised
           THEN /\ crafter' = [crafter EXCEPT ![t].pc = "idle",
                                              ![t].finished = "raised"]
                /\ UNCHANGED contexts
           ELSE /\ contexts' = [contexts EXCEPT
                                  ![reference].provider_name = built.value.provider,
                                  ![reference].model_name = built.value.model_name]
                /\ crafter' = [crafter EXCEPT ![t].pc = "invoking"]
    /\ UNCHANGED _session_context

\* line 122: a model call of invoke; seen keeps the context as it was at the
\* first one
ModelCall(t) ==
    /\ crafter[t].pc = "invoking"
    /\ crafter' = [crafter EXCEPT
                      ![t].seen = IF @ = <<>> THEN <<contexts[crafter[t].context]>>
                                  ELSE @]
    /\ UNCHANGED <<contexts, _session_context>>

\* lines 243 and 252: llm_crafter returns, or raises what invoke raised
Leave(t, finished) ==
    /\ crafter[t].pc = "invoking"
    /\ crafter' = [crafter EXCEPT ![t].pc = "idle", ![t].finished = finished]
    /\ UNCHANGED <<contexts, _session_context>>

SessionsNext ==
    \/ \E t \in Threads, user \in Users, provider_name \in ProviderChoices,
          session_id \in SessionIds :
          /\ Enter(t, user, provider_name, session_id)
          /\ UNCHANGED <<loop_vars, tool_run>>
    \/ \E t \in Threads, available \in Environments, chat_ok \in BOOLEAN :
          /\ Resolve(t, available, chat_ok)
          /\ UNCHANGED <<loop_vars, tool_run>>
    \/ \E t \in Threads : ModelCall(t) /\ UNCHANGED <<loop_vars, tool_run>>
    \/ \E t \in Threads, finished \in {"returned", "raised"} :
          /\ Leave(t, finished)
          /\ UNCHANGED <<loop_vars, tool_run>>

SessionsSpec == Init /\ [][SessionsNext]_vars

-----------------------------------------------------------------------------
StartsWith(text, prefix) ==
    /\ Len(text) >= Len(prefix)
    /\ SubSeq(text, 1, Len(prefix)) = prefix

\* the layers of a description that json.loads turns into a mapping
IsMapping(pkt_desc) == pkt_desc.valid /\ pkt_desc.written.kind = "object"

LayersOf(pkt_desc) == Decoded(pkt_desc.written).members

Disallowed(pkt_desc) ==
    {i \in 1..Len(LayersOf(pkt_desc)) :
        LayersOf(pkt_desc)[i].name \notin AllowedNames}

DisallowedText(layer_name) ==
    "Unknown or disallowed layer: " \o layer_name
       \o ". Allowed: ['Ether', 'IP', 'ARP', 'TCP', 'UDP', 'ICMP', 'Raw']"

\* C12 as stated: send_packet on a description with a layer name outside
\* the allowed seven returns the text naming that layer and the allowed
\* names, calls no layer class and no send primitive, wherever the layer
\* sits.
C12_DisallowedLayerRejected ==
    (/\ tool_run.tool = "send_packet"
     /\ IsMapping(tool_run.pkt_desc)
     /\ Disallowed(tool_run.pkt_desc) # {})
    => /\ ~tool_run.raised
       /\ \E i \in Disallowed(tool_run.pkt_desc) :
             tool_run.result = DisallowedText(LayersOf(tool_run.pkt_desc)[i].name)
       /\ tool_run.attempted = <<>>
       /\ tool_run.primitive = "none"

\* C13 as stated: send_packet returns an error text and does not raise on
\* text that is not JSON, on JSON that is not a mapping, on a layer whose
\* fields are not a mapping and on the empty mapping.
C13_MalformedNeverRaises ==
    (/\ tool_run.tool = "send_packet"
     /\ \/ ~IsMapping(tool_run.pkt_desc)
        \/ LayersOf(tool_run.pkt_desc) = <<>>
        \/ \E i \in 1..Len(LayersOf(tool_run.pkt_desc)) :
              LayersOf(tool_run.pkt_desc)[i].value.kind # "object")
    => /\ ~tool_run.raised
       /\ \E prefix \in {"Invalid JSON: ", "Unknown or disallowed layer: ",
                         "Error creating ", "Error sending packet: "} :
             StartsWith(tool_run.result, prefix)

\* C14 as stated: craft_packet_json on a description whose layers are all
\* allowed sends nothing and returns a text that parses to the same layers
\* in the same order and that craft_packet_json maps to itself; and whatever
\* description it returns has only allowed layers.
C14_DescribeOnly ==
    (tool_run.tool = "craft_packet_json" /\ IsMapping(tool_run.pkt_desc))
    => /\ Disallowed(tool_run.pkt_desc) = {}
          => /\ tool_run.primitive = "none"
             /\ Len(tool_run.text) = 1
             /\ json_loads(tool_run.text[1]) = json_loads(tool_run.pkt_desc)
             /\ craft_packet_json(tool_run.text[1]).text = tool_run.text
       /\ tool_run.text # <<>> => Disallowed(tool_run.pkt_desc) = {}

\* C15 as stated: is_ethernet selects the framed primitive (srp, sendp) or
\* the unframed one (sr, send) for both values of want_response and changes
\* neither the layer classes called nor the wait; a packet that was sent
\* without error gives the answer's repr or 'No response received' with
\* want_response, 'Packet sent successfully' without.
C15_FramingSelectsPrimitive ==
    (tool_run.tool = "send_packet" /\ tool_run.primitive # "none")
    => LET other == send_packet(tool_run.pkt_desc, ~tool_run.is_ethernet,
                                tool_run.want_response, tool_run.reply)
       IN  /\ tool_run.primitive =
                 IF tool_run.is_ethernet
                 THEN IF tool_run.want_response THEN "srp" ELSE "sendp"
                 ELSE IF tool_run.want_response THEN "sr" ELSE "send"
           /\ other.attempted = tool_run.attempted
           /\ other.timeout = tool_run.timeout
           /\ tool_run.timeout =
                 IF tool_run.want_response THEN <<ResponseTimeout>> ELSE <<>>
           /\ (tool_run.constructed # <<>> /\ tool_run.reply # "error")
              => tool_run.result =
                    IF ~tool_run.want_response THEN "Packet sent successfully"
                    ELSE IF tool_run.reply = "answered" THEN AnsweredRepr
                    ELSE "No response received"

\* a ping call whose process ran to its end and printed this output
PingPrinted(loss, rtt) ==
    /\ tool_run.tool = "ping"
    /\ tool_run.spawned
    /\ tool_run.finish.kind = "exit"
    /\ tool_run.finish.stdout = PingOutput(loss, rtt)
    /\ "rtt_min" \in DOMAIN tool_run.result

\* C20 as stated: when the output of ping has '<L>% packet loss' the result
\* has packet_loss = L, and without that line packet_loss = 100.0 and
\* packets_received = 0; when it has 'rtt min/avg/max/mdev = <a>/<b>/<c>'
\* the result has rtt_min = a, rtt_avg = b, rtt_max = c, and without that
\* line the three are None.
C20_PingParsed ==
    \A loss \in Losses, rtt \in Rtts :
        PingPrinted(loss, rtt)
        => /\ loss # None => tool_run.result.packet_loss = float(loss)
           /\ loss = None => /\ tool_run.result.packet_loss = Float(100, 0)
                             /\ tool_run.result.packets_received = 0
           /\ rtt # <<>> => /\ tool_run.result.rtt_min = float(rtt[1])
                            /\ tool_run.result.rtt_avg = float(rtt[2])
                            /\ tool_run.result.rtt_max = float(rtt[3])
           /\ rtt = <<>> => /\ tool_run.result.rtt_min = NoneValue
                            /\ tool_run.result.rtt_avg = NoneValue
                            /\ tool_run.result.rtt_max = NoneValue

-----------------------------------------------------------------------------
\* value, or the end of lo..hi nearest to it
Saturated(lo, value, hi) ==
    IF value < lo THEN lo ELSE IF value > hi THEN hi ELSE value

\* C16: the count and the timeout in the ping command are the inputs brought
\* into 1..20 and 1..10, the count and the port in the hping3 command the
\* inputs brought into 1..100 and 1..65535, the hop limit in the traceroute
\* command the input brought into 1..64; an input inside its range is used
\* as it is.
C16_ClampedBeforeCommand ==
    tool_run.tool \in {"ping", "hping3_probe", "traceroute", "traceroute_host"}
    => /\ (tool_run.tool = "ping" /\ tool_run.cmd # <<>>)
          => /\ tool_run.cmd[3] = ToString(Saturated(1, tool_run.input.count, 20))
             /\ tool_run.cmd[5] = ToString(Saturated(1, tool_run.input.timeout, 10))
       /\ (tool_run.tool = "hping3_probe" /\ tool_run.cmd # <<>>)
          => /\ tool_run.cmd[3] = ToString(Saturated(1, tool_run.input.count, 100))
             /\ \A i \in 1..Len(tool_run.cmd) :
                   tool_run.cmd[i] = "-p"
                   => tool_run.cmd[i + 1] =
                         ToString(Saturated(1, tool_run.input.port, 65535))
       /\ (tool_run.tool \in {"traceroute", "traceroute_host"}
             /\ tool_run.cmd # <<>>)
          => tool_run.cmd[3] = ToString(Saturated(1, tool_run.input.max_hops, 64))

\* hping3 started for count=1000 and port=0: the command has 100 and 1
C16_Witness ==
    /\ tool_run.tool = "hping3_probe"
    /\ tool_run.spawned
    /\ tool_run.input.count = 1000
    /\ tool_run.input.port = 0
    /\ tool_run.cmd = <<"hping3", "-c", "100", "-S", "-p", "1", "example.com">>

\* C17 as stated: ping, traceroute, nmap_scan_direct and hping3_probe hand
\* their command to subprocess.run with a timeout that is positive and not
\* above a constant (64 hops of 10 seconds), whatever count, hop limit and
\* timeout the caller passes.
C17_TimeoutBounded ==
    (/\ tool_run.tool \in {"ping", "traceroute", "nmap_scan_direct", "hping3_probe"}
     /\ tool_run.cmd # <<>>)
    => /\ tool_run.timeout[1] > 0
       /\ tool_run.timeout[1] <= 64 * 10

\* the number of ports an nmap port list names ("22,80" or "1-1000")
RECURSIVE PortCount(_)
PortCount(items) ==
    IF items = <<>> THEN 0
    ELSE LET ends == Split(items[1], "-")
         IN  (IF Len(ends) = 2 /\ IsInt(ends[1]) /\ IsInt(ends[2])
              THEN int(ends[2]) - int(ends[1]) + 1
              ELSE 1) + PortCount(Tail(items))

\* C18 as stated: quick_port_scan probes 50 ports at most, and the port
\* list nmap_scan_direct hands to nmap names 50 ports at most.
C18_PortLimit ==
    /\ tool_run.tool = "quick_port_scan"
       => Len(tool_run.probed) <= QuickScanLimit
    /\ tool_run.tool = "nmap_scan_direct"
       => \A i \in 1..Len(tool_run.cmd) :
             tool_run.cmd[i] = "-p"
             => PortCount(Split(tool_run.cmd[i + 1], ",")) <= QuickScanLimit

ShellMetacharacters == {";", "&", "|", "$", "`", "<", ">", "(", ")", "'", "*", "?"}

Unsafe(target) ==
    \E i \in 1..Len(target) :
        Char(target, i) \in ShellMetacharacters \cup Whitespace

\* the result of a tool says the call failed
IsFailure(run) ==
    IF run.tool \in {"ping", "traceroute", "nmap_scan_direct", "dns_lookup"}
    THEN ~run.result.success
    ELSE \E prefix \in {"Invalid ", "hping3 is not installed",
                        "dnspython is not installed"} :
             StartsWith(run.result, prefix)

\* C19 as stated: each of the nine tools that take a target answers a
\* target with a shell metacharacter or whitespace in it with a failure,
\* and starts no process and does no socket operation for it.
C19_TargetRejected ==
    (/\ tool_run.tool \in {"ping", "traceroute", "traceroute_host",
                           "nmap_scan_direct", "hping3_probe", "quick_port_scan",
                           "arp_scan", "dns_lookup_tool", "dns_lookup"}
     /\ Unsafe(tool_run.target))
    => /\ IsFailure(tool_run)
       /\ ~tool_run.spawned
       /\ ~tool_run.socket

-----------------------------------------------------------------------------
\* a call of the tool whose process ran to its end and printed these lines
Ran(tool) ==
    /\ tool_run.tool = tool
    /\ tool_run.spawned
    /\ "lines" \in DOMAIN tool_run.finish
    /\ ~subprocess_run(tool_run.cmd, tool_run.timeout[1], tool_run.finish).raised

\* the hops that were printed: number, name, address and the mean of the
\* times as the line's author worked it out
RECURSIVE PrintedHops(_)
PrintedHops(lines) ==
    IF lines = <<>> THEN <<>>
    ELSE (IF lines[1].form = "hop"
          THEN <<[hop |-> lines[1].n, hostname |-> lines[1].host,
                  ip |-> lines[1].address, rtt |-> lines[1].mean]>>
          ELSE <<>>) \o PrintedHops(Tail(lines))

\* C21: each output line of traceroute of the form
\* '<n> <host> (<ipv4>) <t1> ms <t2> ms ...' gives one hop with number n,
\* hostname host, address ipv4 and the mean of the times with two decimals
\* and ' ms' as rtt, '*' when the line has no times; the hops are in the
\* order of their lines, and the other lines give none.
C21_HopsParsed ==
    Ran("traceroute")
    => tool_run.result.hops = PrintedHops(tool_run.finish.lines)

\* '3 host (10.0.0.1)  4.500 ms  5.500 ms' and a line without times, in
\* this order
C21_Witness ==
    /\ Ran("traceroute")
    /\ tool_run.finish.stdout =
          " 3  host (10.0.0.1)  4.500 ms  5.500 ms\n 4  far (10.9.9.9)  * * *\n"
    /\ tool_run.result.hops =
          <<[hop |-> 3, hostname |-> "host", ip |-> "10.0.0.1", rtt |-> "5.00 ms"],
            [hop |-> 4, hostname |-> "far", ip |-> "10.9.9.9", rtt |-> "*"]>>

-----------------------------------------------------------------------------
\* a printed line of the form the tool looks for
Matching(line) ==
    \/ line.form = "hop"
    \/ line.form = "port" /\ line.state = "open"

\* the result without the captured text
Parsed(result) ==
    [key \in DOMAIN result \ {"raw_output"} |-> result[key]]

\* the same traceroute or nmap call on an output that has only the
\* matching lines of this one
OnMatching ==
    LET finish == Printed(tool_run.finish.returncode,
                          SelectSeq(tool_run.finish.lines, Matching))
    IN  IF tool_run.tool = "traceroute"
        THEN traceroute(tool_run.target, tool_run.input.max_hops,
                        tool_run.input.timeout, tool_run.input.arguments, finish)
        ELSE nmap_scan_direct(tool_run.target, tool_run.input.scan_type,
                              tool_run.input.ports, tool_run.input.arguments,
                              TRUE, finish)

\* the same ping call on an output without the line that opens the
\* statistics, which is of neither form ping looks for
PingOnMatching ==
    LET stdout == tool_run.finish.stdout
        first == Len("--- ping statistics ---\n")
    IN  ping(tool_run.target, tool_run.input.count, tool_run.input.timeout,
             tool_run.input.arguments,
             Completed(tool_run.finish.returncode,
                       SubSeq(stdout, first + 1, Len(stdout)), ""))

\* a ping call whose process ran to its end
PingRan ==
    /\ tool_run.tool = "ping"
    /\ tool_run.spawned
    /\ tool_run.finish.kind = "exit"
    /\ ~subprocess_run(tool_run.cmd, tool_run.timeout[1], tool_run.finish).raised

\* C22: in ping, traceroute and nmap_scan_direct a line of the output that
\* is not of the form the tool looks for changes nothing in the result but
\* the captured text, and the call does not raise; when no line is of that
\* form the payload is empty (no hops, no open ports, nothing received, no
\* round-trip times) and success says that the process ended with status
\* zero.
C22_UnmatchedLinesSkipped ==
    /\ \A tool \in {"traceroute", "nmap_scan_direct"} :
          Ran(tool)
          => /\ ~tool_run.raised
             /\ Parsed(tool_run.result) = Parsed(OnMatching.result)
             /\ tool_run.result.raw_output = tool_run.finish.stdout
             /\ (\A i \in 1..Len(tool_run.finish.lines) :
                    ~Matching(tool_run.finish.lines[i]))
                => /\ tool_run.result.success = (tool_run.finish.returncode = 0)
                   /\ tool = "traceroute" => tool_run.result.hops = <<>>
                   /\ tool = "nmap_scan_direct" => tool_run.result.open_ports = <<>>
    /\ PingRan
       => /\ ~tool_run.raised
          /\ Parsed(tool_run.result) = Parsed(PingOnMatching.result)
          /\ tool_run.finish.stdout = PingOutput(None, <<>>)
             => /\ tool_run.result.success = (tool_run.finish.returncode = 0)
                /\ tool_run.result.raw_output = tool_run.finish.stdout
                /\ tool_run.result.packets_received = 0
                /\ tool_run.result.packet_loss = Float(100, 0)
                /\ tool_run.result.rtt_min = NoneValue
                /\ tool_run.result.rtt_avg = NoneValue
                /\ tool_run.result.rtt_max = NoneValue

\* nmap ended with status 0 on a port that is open or filtered and the
\* table's heading: no open port, success
C22_Witness ==
    /\ Ran("nmap_scan_direct")
    /\ tool_run.finish.stdout =
          "161/udp   open|filtered  snmp\nPORT   STATE SERVICE\n"
    /\ tool_run.finish.returncode = 0
    /\ tool_run.result.open_ports = <<>>
    /\ tool_run.result.success

-----------------------------------------------------------------------------
\* the characters of a text, as a way to tell a text from other values
IsText(value) == value = "" \/ Len(value) > 0

\* C23: every result of ping, traceroute, nmap_scan_direct and dns_lookup
\* is a record with a success flag, the target as it was passed and a
\* raw_output text, whether the target was rejected, the tool was missing,
\* the process ran out of time, ended with a status other than zero or
\* succeeded; and none of the four raises.
C23_ResultShape ==
    tool_run.tool \in {"ping", "traceroute", "nmap_scan_direct", "dns_lookup"}
    => /\ ~tool_run.raised
       /\ {"success", "target", "raw_output"} \subseteq DOMAIN tool_run.result
       /\ tool_run.result.success \in BOOLEAN
       /\ tool_run.result.target = tool_run.target
       /\ IsText(tool_run.result.raw_output)

\* dns_lookup without dnspython, on a target that no pattern would accept
C23_Witness ==
    /\ tool_run.tool = "dns_lookup"
    /\ tool_run.target = "; rm -rf /"
    /\ ~tool_run.socket
    /\ tool_run.result.success = FALSE
    /\ tool_run.result.target = "; rm -rf /"
    /\ tool_run.result.raw_output = "No module named 'dns'"

-----------------------------------------------------------------------------
\* thread t is inside a call of llm_crafter
Running(t) == crafter[t].pc # "idle"

\* the step changes the object the reference stands for
Mutated(reference) == contexts'[reference] # contexts[reference]

\* the step is one of thread t
StepOf(t) == crafter'[t] # crafter[t]

\* C24: while calls of llm_crafter run on different threads at the same
\* time, get_session_context on a thread that is inside a call yields the
\* context of that call and of no other, and a context is changed only by
\* a step of the call that created it.
C24_ContextIsolated ==
    /\ [](\A t \in Threads :
            Running(t)
            => /\ get_session_context(t) = crafter[t].context
               /\ \A u \in Threads \ {t} :
                     Running(u) => get_session_context(t) # crafter[u].context)
    /\ [][\A reference \in 1..Len(contexts) :
             Mutated(reference)
             => \E t \in Threads :
                   /\ Running(t)
                   /\ crafter[t].context = reference
                   /\ StepOf(t)
                   /\ \A u \in Threads \ {t} : ~StepOf(u)]_vars

\* two calls are past their first model call, each with its own context
C24_Witness ==
    /\ \A t \in Threads : crafter[t].pc = "invoking" /\ crafter[t].seen # <<>>
    /\ get_session_context("worker-1") = crafter["worker-1"].context
    /\ get_session_context("worker-2") = crafter["worker-2"].context
    /\ crafter["worker-1"].context # crafter["worker-2"].context

\* C25 as stated: a call of llm_crafter creates one context; its user and
\* session id never change; its provider and model name are filled in
\* once, before the first model call; and once the call has returned or
\* raised, get_session_context on its thread no longer yields its context.
C25_ContextLifecycle ==
    /\ [](\A t \in Threads :
            /\ Running(t) => crafter[t].context # NoReference
            /\ crafter[t].seen # <<>>
               => crafter[t].seen[1] = contexts[crafter[t].context]
            /\ (~Running(t) /\ crafter[t].finished # "none")
               => get_session_context(t) # crafter[t].context)
    /\ [][\A reference \in 1..Len(contexts) :
             /\ contexts'[reference].user = contexts[reference].user
             /\ contexts'[reference].session_id = contexts[reference].session_id
             /\ Mutated(reference)
                => \E t \in Threads :
                      /\ crafter[t].context = reference
                      /\ crafter[t].pc = "resolving"
                      /\ crafter'[t].pc = "invoking"]_vars

-----------------------------------------------------------------------------
\* the events of the log whose type is one of types, in the order logged
EventsOf(types) == SelectSeq(log, LAMBDA event : event.type \in types)

\* the event a model call is to be followed by
EventFor(response) ==
    IF response.kind = "error" THEN "LLM_ERROR" ELSE "LLM_RESPONSE"

\* C26: a call of llm_crafter that reaches the loop logs one request event,
\* before any other event and so before the first model call; the events
\* of the model calls are, call by call, one response event for a call that
\* returned and one error event for a call that raised; and the tool
\* events are, call by call, one for each dispatched tool call, also for an
\* unknown tool and for an adapter that raised.
C26_OneEventEach ==
    Invoked
    => /\ log # <<>>
       /\ log[1].type = "LLM_REQUEST"
       /\ Len(EventsOf({"LLM_REQUEST"})) = 1
       /\ Len(EventsOf({"LLM_RESPONSE", "LLM_ERROR"})) = Len(responses)
       /\ \A i \in 1..Len(responses) :
             EventsOf({"LLM_RESPONSE", "LLM_ERROR"})[i].type = EventFor(responses[i])
       /\ Len(EventsOf({"TOOL_EXEC"})) = Len(dispatched)
       /\ \A i \in 1..Len(dispatched) :
             /\ EventsOf({"TOOL_EXEC"})[i].tool = dispatched[i].name
             /\ EventsOf({"TOOL_EXEC"})[i].parameters = dispatched[i].args
       /\ Len(log) = 1 + Len(responses) + Len(dispatched)

\* a finished call: the model asked for an unknown tool and for ping_host
\* without a target, then its next call raised
C26_Witness ==
    /\ pc = "done"
    /\ Len(dispatched) = 2
    /\ dispatched[1].name = "no_such_tool"
    /\ dispatched[2].name = "ping_host" /\ dispatched[2].args = {}
    /\ [i \in 1..Len(log) |-> log[i].type]
          = <<"LLM_REQUEST", "LLM_RESPONSE", "TOOL_EXEC", "TOOL_EXEC", "LLM_ERROR">>

-----------------------------------------------------------------------------
\* the tool calls a run with a working logger dispatches for these
\* responses: those of each response in order, up to the first final_report
RECURSIVE ToDispatch(_)
ToDispatch(rs) ==
    IF rs = <<>> THEN <<>>
    ELSE LET calls == rs[1].tool_calls
             terminal == FirstTerminal(calls)
         IN  IF terminal # 0 THEN SubSeq(calls, 1, terminal)
             ELSE calls \o ToDispatch(Tail(rs))

\* what a run with a working logger returns for these responses
Result(rs, max_iterations) ==
    IF rs = <<>> THEN Return(MaxIterationsMessage(max_iterations))
    ELSE LET last == rs[Len(rs)]
             terminal == FirstTerminal(last.tool_calls)
         IN  IF last.kind = "error"
             THEN Return(Str("LLM invocation error: " \o last.error))
             ELSE IF last.tool_calls = <<>> THEN Return(TextResult(last.content))
             ELSE IF terminal # 0
             THEN Return(PyStr(Dispatch(last.tool_calls[terminal], 0).tool_output))
             ELSE Return(MaxIterationsMessage(max_iterations))

\* C27 as stated: a log call that raises changes neither the model calls
\* and tool dispatches of the call of llm_crafter nor what it returns: a
\* finished call that reached the loop has dispatched the tool calls of its
\* responses up to the first final_report and has returned the text that
\* the responses determine, as it does when every log call succeeds.
C27_LoggerFailureContained ==
    (pc = "done" /\ Invoked)
    => /\ dispatched = ToDispatch(responses)
       /\ outcome = Result(responses, executor.max_iterations)
       /\ (responses = <<>> \/ RequestsNonTerminal(responses[Len(responses)]))
          => Len(responses) = executor.max_iterations

-----------------------------------------------------------------------------
\* the loop ended through the terminal tool: the last dispatched call is a
\* final_report and the call of llm_crafter is finished
EndedByTerminal ==
    /\ pc = "done"
    /\ dispatched # <<>>
    /\ IsTerminal(dispatched[Len(dispatched)])

\* C28 as stated: when the loop ends through final_report, what llm_crafter
\* returns is the text of the report argument of that call and never an
\* error text, whatever arguments the model passed.
C28_ReportReturned ==
    EndedByTerminal
    => LET args == dispatched[Len(dispatched)].args
       IN  /\ "report" \in Keys(args)
           /\ outcome = Return(PyStr(Arg(args, "report")))

\* the adapter of a dispatched call raised
AdapterRaised(tool_call) ==
    /\ tool_call.name \in TOOL_MAP
    /\ \A exit \in ExitStatuses :
          CallTool(tool_call.name, tool_call.args, exit).raised

\* C29: the tool-execution event of a dispatched call has success false
\* exactly when the tool is unknown or its adapter raised, and then it
\* carries an error; a call whose adapter returned a text, also one that
\* describes a failure (invalid target), has success true and no error.
C29_SuccessFlag ==
    \A i \in 1..Len(dispatched) :
        LET event == EventsOf({"TOOL_EXEC"})[i]
            failed == dispatched[i].name \notin TOOL_MAP \/ AdapterRaised(dispatched[i])
        IN  /\ event.success = ~failed
            /\ event.success <=> event.error = None
            /\ (dispatched[i].name = "ping_host"
                  /\ dispatched[i].args = {<<"target", Str("; rm -rf /")>>})
               => /\ event.success
                  /\ event.result_preview = "Ping failed: Invalid target format"

\* ping_host was asked for a target that fails the validation
C29_Witness ==
    /\ dispatched # <<>>
    /\ dispatched[1].name = "ping_host"
    /\ dispatched[1].args = {<<"target", Str("; rm -rf /")>>}
    /\ EventsOf({"TOOL_EXEC"})[1].success
    /\ EventsOf({"TOOL_EXEC"})[1].error = None
    /\ EventsOf({"TOOL_EXEC"})[1].result_preview = "Ping failed: Invalid target format"

\* C30 as stated: every result of ping has 0 <= packet_loss <= 100 and
\* 0 <= packets_received <= packets_sent <= 20, whatever the process
\* printed, a loss with a decimal fraction included.
C30_PingCountsInRange ==
    tool_run.tool = "ping"
    => LET result == tool_run.result
           hundred == 100 * Power10(result.packet_loss.scale)
       IN  /\ 0 <= result.packet_loss.num
           /\ result.packet_loss.num <= hundred
           /\ 0 <= result.packets_received
           /\ result.packets_received <= result.packets_sent
           /\ result.packets_sent <= 20

====
